---- MODULE Spec2Model ----
(***************************************************************************)
(* Clickability checker: element discovery, click classification and the   *)
(* concurrent test scheduler of ClickableElementTester                     *)
(* (src/selenium_clickable_tester_optimized.py, and the sequential tester  *)
(* src/selenium_clickable_tester.py).                                      *)
(*                                                                         *)
(* Specifications:                                                         *)
(*   SpecBatch  _divide_elements_into_batches as a pure function           *)
(*   SpecHref   is_dead_click_by_href as a pure function                   *)
(*   SpecClassify  one call of the click classifier, for every answer of   *)
(*              the driver                                                 *)
(*   Spec       run_comprehensive_test_concurrent: discovery result, pool  *)
(*              setup, batches, one worker per batch, collection           *)
(*   SpecDiscovery  find_clickable_elements: discovery passes over one     *)
(*              page, on one tester or on a tester constructed anew        *)
(*   SpecLocate  one lookup of a descriptor by the locator strategies, for *)
(*              every answer of the driver                                 *)
(***************************************************************************)
EXTENDS Integers, Sequences, FiniteSets, TLC

VARIABLES
    \* ---- _divide_elements_into_batches (SpecBatch)
    bpc,            \* "idle" | "call" | "returned"
    elements,       \* the argument list: the descriptor at position i is i
    num_batches,    \* the argument num_batches
    batches,        \* the returned list of batches
    \* ---- is_dead_click_by_href (SpecHref)
    hpc,            \* "idle" | "call" | "returned"
    element_info,   \* the argument: a descriptor, of which only href is read
    hrefDead,       \* the returned boolean
    \* ---- one classification (SpecClassify)
    cpc,            \* "idle" | "call" | "returned"
    cvariant,       \* which classifier ran: "concurrent" | "sequential"
    cinfo,          \* the descriptor classified
    csess,          \* the session before the call: [url, title]
    cenv,           \* what the driver answers during the call
    cout,           \* what the call returned: [result, sess, stage, ops]
    \* ---- run_comprehensive_test_concurrent (Spec)
    mpc,            \* the coordinating thread: "idle" | "start" | "setup" |
                    \* "submit" | "collect" | "aborting" | "returned"
    max_workers,    \* self.max_workers
    page,           \* the descriptors discovery finds on the target page
    clickable_elements, \* the list find_clickable_elements returned
    driver_pool,    \* the sessions acquired, in order
    sessions,       \* session id -> [url, title, alive, quit, fatal]; 0 is
                    \* self.driver; fatal is the position of the element of
                    \* its batch during which the session died, 0 if none
    run_batches,    \* the batches submitted
    workers,        \* batch index -> [pc, i, driver, batch_results, seen, got]:
                    \* seen is the page the session showed when line 102
                    \* read current_url for the element at i, got whether
                    \* line 103 called driver.get for it
    collected,      \* the batch indices whose future was collected
    test_results,   \* the record being built
    returned,       \* what the run returned
    classified,     \* position in the discovery list -> classifier calls made
    answered,       \* position -> what the element's own click did, once it
                    \* was classified: the driver's answer, NotAnswered before
    touched,        \* session id -> who made driver calls on it
    \* ---- find_clickable_elements (SpecDiscovery)
    dpc,            \* "idle" | "ready"
    dom,            \* the elements of the target page, in document order
    main_content_area,  \* whether _get_main_content_area finds a region
    tester,         \* which tester instance is in use: 1, 2, ...
    seen_elements,  \* self.seen_elements of the tester in use
    passes,         \* the discovery passes made: [tester, seen_before, result]
    faults,         \* the queries of discovery that throw on this page
    \* ---- the locator (SpecLocate)
    lpc,            \* "idle" | "call" | "returned"
    lvariant,       \* which lookup ran
    linfo,          \* the descriptor looked up
    lanswers,       \* strategy -> what find_elements answers for it
    lout            \* what the lookup returned

batchVars == <<bpc, elements, num_batches, batches>>
hrefVars == <<hpc, element_info, hrefDead>>
classifyVars == <<cpc, cvariant, cinfo, csess, cenv, cout>>
runVars == <<mpc, max_workers, page, clickable_elements, driver_pool, sessions,
             run_batches, workers, collected, test_results, returned,
             classified, answered, touched>>
discoveryVars == <<dpc, dom, main_content_area, tester, seen_elements, passes,
                   faults>>
locateVars == <<lpc, lvariant, linfo, lanswers, lout>>
vars == <<batchVars, hrefVars, classifyVars, runVars, discoveryVars, locateVars>>

Min(a, b) == IF a <= b THEN a ELSE b

\* Python's value None: different from every string, a string being a
\* sequence of one-character strings.
None == <<"None">>

(***************************************************************************)
(* Bounds of the model.                                                    *)
(***************************************************************************)
MaxListLen == 10       \* longest list handed to _divide_elements_into_batches
MaxNumBatches == 6     \* largest num_batches handed to it
MaxShortHref == 3      \* hrefs over HrefAlphabet are enumerated up to this length
MaxElems == 3          \* most descriptors discovered in a concurrent run
MaxWorkers == 2        \* largest max_workers of a concurrent run
MaxDom == 2            \* most elements on a page handed to discovery
MaxPasses == 2         \* most discovery passes over one page
MaxTesters == 2        \* most testers constructed for one page

(***************************************************************************)
(* _divide_elements_into_batches                                           *)
(***************************************************************************)

\* Python's s[a:b] for 0 <= a, 0 <= b: the slice is clamped to the list.
Slice(s, a, b) == SubSeq(s, a + 1, Min(b, Len(s)))

current_batch_size_le(batch_size, remainder, i) ==
    batch_size + (IF i <= remainder THEN 1 ELSE 0)

\* line 81: batch_size + (1 if i < remainder else 0)
current_batch_size(batch_size, remainder, i) ==
    batch_size + (IF i < remainder THEN 1 ELSE 0)

append_batch_always(bs, batch) == Append(bs, batch)

\* lines 85-86: if batch: batches.append(batch)
append_batch(bs, batch) == IF batch # <<>> THEN Append(bs, batch) ELSE bs

\* A loop that puts each new batch in front of the earlier ones.
RECURSIVE divide_loop_prepend(_, _, _, _, _, _, _)
divide_loop_prepend(elems, nb, batch_size, remainder, i, start_idx, bs) ==
    IF i >= nb THEN bs
    ELSE LET end_idx == start_idx + current_batch_size(batch_size, remainder, i)
             batch == Slice(elems, start_idx, end_idx)
         IN divide_loop_prepend(elems, nb, batch_size, remainder, i + 1, end_idx,
                                IF batch # <<>> THEN <<batch>> \o bs ELSE bs)

\* lines 79-88: the loop body for i, i+1, ..., num_batches-1.
RECURSIVE divide_loop(_, _, _, _, _, _, _)
divide_loop(elems, nb, batch_size, remainder, i, start_idx, bs) ==
    IF i >= nb THEN bs
    ELSE LET end_idx == start_idx + current_batch_size(batch_size, remainder, i)
             batch == Slice(elems, start_idx, end_idx)
         IN divide_loop(elems, nb, batch_size, remainder, i + 1, end_idx,
                        append_batch(bs, batch))

\* lines 71-90
_divide_elements_into_batches(elems, nb) ==
    divide_loop(elems, nb, Len(elems) \div nb, Len(elems) % nb, 0, 0, <<>>)

BatchIdle == bpc = "idle" /\ elements = <<>> /\ num_batches = 1 /\ batches = <<>>

BatchInit ==
    /\ bpc = "call"
    /\ \E n \in 0..MaxListLen : elements = [i \in 1..n |-> i]
    /\ num_batches \in 1..MaxNumBatches
    /\ batches = <<>>

DivideElements ==
    /\ bpc = "call"
    /\ batches' = _divide_elements_into_batches(elements, num_batches)
    /\ bpc' = "returned"
    /\ UNCHANGED <<elements, num_batches, hrefVars, classifyVars, runVars, discoveryVars, locateVars>>

(***************************************************************************)
(* is_dead_click_by_href                                                   *)
(* A string is a sequence of one-character strings.                        *)
(***************************************************************************)
Uppers == <<"A","B","C","D","E","F","G","H","I","J","K","L","M",
            "N","O","P","Q","R","S","T","U","V","W","X","Y","Z">>
Lowers == <<"a","b","c","d","e","f","g","h","i","j","k","l","m",
            "n","o","p","q","r","s","t","u","v","w","x","y","z">>

LowerChar(c) ==
    IF \E i \in 1..Len(Uppers) : Uppers[i] = c
    THEN Lowers[CHOOSE i \in 1..Len(Uppers) : Uppers[i] = c]
    ELSE c

UpperChar(c) ==
    IF \E i \in 1..Len(Lowers) : Lowers[i] = c
    THEN Uppers[CHOOSE i \in 1..Len(Lowers) : Lowers[i] = c]
    ELSE c

\* str.lower()
lower(s) == [i \in 1..Len(s) |-> LowerChar(s[i])]

IsNotSpace(c) == c # " "

\* str.replace(' ', '')
replace_spaces(s) == SelectSeq(s, IsNotSpace)

\* (x or ''): None and the empty string both give ''.
OrEmpty(x) == IF x = None THEN <<>> ELSE x

JsVoid == <<"j","a","v","a","s","c","r","i","p","t",":","v","o","i","d","(","0",")">>
JsVoid2 == <<"j","a","v","a","s","c","r","i","p","t",":",":","v","o","i","d","(","0",")">>
Hash == <<"#">>
OneSpace == <<" ">>
JsDoSomething == <<"j","a","v","a","s","c","r","i","p","t",":",
                   "d","o","S","o","m","e","t","h","i","n","g","(",")">>
AboutPath == <<"/","a","b","o","u","t">>

\* line 1147: the list the normalised href is looked up in.
DeadHrefList == {JsVoid, JsVoid2, Hash, OneSpace}

\* line 1146: (element_info.get('href') or '').replace(' ', '').lower()
normalize_href(info) == lower(replace_spaces(OrEmpty(info.href)))

\* lines 1144-1147 (and src/selenium_clickable_tester.py 996-999)
is_dead_click_by_href(info) == normalize_href(info) \in DeadHrefList

\* ---- the hrefs the function is applied to
HrefAlphabet == {"#", " ", "a", "A", ":"}

RECURSIVE StringsUpTo(_, _)
StringsUpTo(A, n) ==
    IF n = 0 THEN {<<>>}
    ELSE LET shorter == StringsUpTo(A, n - 1)
         IN shorter \cup {Append(s, c) : s \in shorter, c \in A}

InsertAt(s, p, c) == SubSeq(s, 1, p) \o <<c>> \o SubSeq(s, p + 1, Len(s))
UpperAt(s, q) == [s EXCEPT ![q] = UpperChar(s[q])]

HrefLiterals == {JsVoid, JsVoid2, Hash, OneSpace, JsDoSomething, AboutPath}

\* Each literal as written, with one space put in, with one letter in upper
\* case, and with both.
HrefVariants ==
    HrefLiterals
    \cup UNION {{InsertAt(s, p, " ") : p \in 0..Len(s)} : s \in HrefLiterals}
    \cup {UpperAt(s, q) : s \in {JsVoid, JsVoid2}, q \in 1..Len(JsVoid)}
    \cup {InsertAt(UpperAt(s, q), p, " ") :
            s \in {JsVoid, JsVoid2}, q \in {1, 5, 12}, p \in {0, 4, 11}}

HrefInputs == {None} \cup StringsUpTo(HrefAlphabet, MaxShortHref) \cup HrefVariants

HrefIdle == hpc = "idle" /\ element_info = [href |-> None] /\ hrefDead = FALSE

HrefInit ==
    /\ hpc = "call"
    /\ \E h \in HrefInputs : element_info = [href |-> h]
    /\ hrefDead = FALSE

IsDeadClickByHref ==
    /\ hpc = "call"
    /\ hrefDead' = is_dead_click_by_href(element_info)
    /\ hpc' = "returned"
    /\ UNCHANGED <<element_info, batchVars, classifyVars, runVars, discoveryVars, locateVars>>

(***************************************************************************)
(* The click classifier: _test_element_click_with_driver (the scheduler's) *)
(* and test_element_click (the sequential tester's).                       *)
(*                                                                         *)
(* The driver is an external collaborator.  What it answers during one     *)
(* call is the record env:                                                 *)
(*   raise    [at, kind]: the driver call that raises and the exception:   *)
(*            at "start" (current_url/title before), "locate" (every       *)
(*            find_elements of the lookup), "scroll", "check"              *)
(*            (is_displayed/is_enabled), "click" (element.click() raising  *)
(*            something other than ElementClickInterceptedException),      *)
(*            "observe" (current_url/title after) or "none"                *)
(*   present  some locator strategy yields a candidate whose tag name and  *)
(*            text equal the descriptor's                                  *)
(*   displayed  that candidate's is_displayed() when it is located         *)
(*   shown    the element's is_displayed() at the re-check, unless forced  *)
(*   enabled  the element's is_enabled() at the re-check                   *)
(*   force    "ok" | "raises": the script forcing a carousel element and   *)
(*            its ancestors visible                                        *)
(*   click    "ok" | "intercepted": element.click()                        *)
(*   js       "ok" | "raises": the script-level click                      *)
(*   after    [url, title]: the session after a click that went through    *)
(*   modals   "present" | "absent" | "raises": the two overlay queries     *)
(***************************************************************************)
TargetUrl == "target"
OtherUrl == "other"

ExcKinds == {"timeout", "stale", "other"}
NoRaise == [at |-> "none", kind |-> "other"]

\* A result record that stores the descriptor with its link target blanked.
new_result_href_blanked(info) ==
    [element_info |-> [info EXCEPT !.href = <<>>],
     click_status |-> "unknown", error_message |-> "",
     page_changed |-> FALSE, url_before |-> "", url_after |-> "",
     new_elements_appeared |-> FALSE]

\* lines 143-152: the result record as created.
NewResult(info) ==
    [element_info |-> info, click_status |-> "unknown", error_message |-> "",
     page_changed |-> FALSE, url_before |-> "", url_after |-> "",
     new_elements_appeared |-> FALSE]

\* A lookup that hands back a handle whatever the strategies found.
lookup_never_none(info, env) == TRUE

\* lines 237-257: a candidate is accepted when it is displayed and its tag name
\* and text match.  TRUE when an element is returned, FALSE for None.
\* A find_elements that raises is skipped with its strategy (lines 253-254).
_find_element_by_info_with_driver(info, env) ==
    env.raise.at # "locate" /\ env.present /\ env.displayed

\* lines 1315-1335: the same lookup on the lead session.
_find_element_by_info(info, env) ==
    env.raise.at # "locate" /\ env.present /\ env.displayed

\* lines 1252-1291: the lookup inside the carousel containers, which does not
\* ask whether the candidate is displayed.
_find_and_prepare_carousel_element(info, env) ==
    env.raise.at # "locate" /\ env.present

\* A re-check that takes every located element for displayed.
recheck_always_displayed(info, env) == TRUE

\* lines 259-279 (1293-1313): after the script ran, the element is displayed;
\* a script error is printed and the element stays as it was.
DisplayedAtCheck(info, env) ==
    IF info.is_carousel_element /\ env.force = "ok" THEN TRUE ELSE env.shown

observed_title_first(info, initial, current, modals) ==
    IF is_dead_click_by_href(info)
    THEN [click_status |-> "dead_click", error_message |-> "dead href",
          page_changed |-> FALSE, new_elements_appeared |-> FALSE]
    ELSE IF current.title # initial.title
    THEN [click_status |-> "active_title_change", error_message |-> "",
          page_changed |-> TRUE, new_elements_appeared |-> FALSE]
    ELSE IF current.url # initial.url
    THEN [click_status |-> "active_navigation", error_message |-> "",
          page_changed |-> TRUE, new_elements_appeared |-> FALSE]
    ELSE IF modals = "present"
    THEN [click_status |-> "active_ui_change", error_message |-> "",
          page_changed |-> FALSE, new_elements_appeared |-> TRUE]
    ELSE [click_status |-> "dead_click", error_message |-> "",
          page_changed |-> FALSE, new_elements_appeared |-> FALSE]

\* A decision that reports the overlay without setting new_elements_appeared.
observed_status_flag_unset(info, initial, current, modals) ==
    IF is_dead_click_by_href(info)
    THEN [click_status |-> "dead_click", error_message |-> "dead href",
          page_changed |-> FALSE, new_elements_appeared |-> FALSE]
    ELSE IF current.url # initial.url
    THEN [click_status |-> "active_navigation", error_message |-> "",
          page_changed |-> TRUE, new_elements_appeared |-> FALSE]
    ELSE IF current.title # initial.title
    THEN [click_status |-> "active_title_change", error_message |-> "",
          page_changed |-> TRUE, new_elements_appeared |-> FALSE]
    ELSE IF modals = "present"
    THEN [click_status |-> "active_ui_change", error_message |-> "",
          page_changed |-> FALSE, new_elements_appeared |-> FALSE]
    ELSE [click_status |-> "dead_click", error_message |-> "",
          page_changed |-> FALSE, new_elements_appeared |-> FALSE]

\* lines 203-228 (1213-1238; src/selenium_clickable_tester.py 1083-1109): the
\* status decided from what was observed after the click.  initial and current
\* are [url, title]; modals is the answer of the two overlay queries.
observed_status(info, initial, current, modals) ==
    IF is_dead_click_by_href(info)
    THEN [click_status |-> "dead_click", error_message |-> "dead href",
          page_changed |-> FALSE, new_elements_appeared |-> FALSE]
    ELSE IF current.url # initial.url
    THEN [click_status |-> "active_navigation", error_message |-> "",
          page_changed |-> TRUE, new_elements_appeared |-> FALSE]
    ELSE IF current.title # initial.title
    THEN [click_status |-> "active_title_change", error_message |-> "",
          page_changed |-> TRUE, new_elements_appeared |-> FALSE]
    ELSE IF modals = "present"
    THEN [click_status |-> "active_ui_change", error_message |-> "",
          page_changed |-> FALSE, new_elements_appeared |-> TRUE]
    ELSE \* no overlay, or the query raised (line 227)
         [click_status |-> "dead_click", error_message |-> "",
          page_changed |-> FALSE, new_elements_appeared |-> FALSE]

\* The except clauses: lines 230-232 catch every exception as 'error'; lines
\* 1240-1248 tell TimeoutException and StaleElementReferenceException apart.
ExceptStatus(kind, sequential) ==
    IF sequential /\ kind = "timeout" THEN "timeout"
    ELSE IF sequential /\ kind = "stale" THEN "stale_element"
    ELSE "error"

\* What a call returns: the result record, the session as the call leaves it,
\* the last state of the classification reached and the driver operations
\* performed, in order.
Outcome(result, sess, stage, ops) ==
    [result |-> result, sess |-> sess, stage |-> stage, ops |-> ops]

\* An except clause that records the message and leaves the status as it was.
raised_status_unset(result, env, sequential, sess, stage, ops) ==
    Outcome([result EXCEPT !.error_message = "exception"], sess, stage, ops)

\* An except clause that falls back to dead_click, as line 227 does.
raised_as_dead_click(result, env, sequential, sess, stage, ops) ==
    Outcome([result EXCEPT !.click_status = "dead_click"], sess, stage, ops)

Raised(result, env, sequential, sess, stage, ops) ==
    Outcome([result EXCEPT !.click_status = ExceptStatus(env.raise.kind, sequential),
                           !.error_message = "exception"],
            sess, stage, ops)

\* A click step that runs the script-level click whatever element.click() did.
click_ops_always_forced(env) == <<"click", "js_click">>

\* lines 183-188 (1193-1198): the click calls made: element.click(), and the
\* script-level click in the handler of ElementClickInterceptedException.
click_ops(env) ==
    <<"click">> \o (IF env.click = "intercepted" THEN <<"js_click">> ELSE <<>>)

\* lines 189-193 (1199-1203): the script-level click raised too.
click_intercepted(env) == env.click = "intercepted" /\ env.js = "raises"

\* lines 154-234 and 1162-1250: the body shared by the two classifiers, which
\* differ in the lookup (found) and in the except clauses (sequential).
ClickTest(info, sess, env, found, sequential) ==
    LET r0 == NewResult(info)
        r1 == [r0 EXCEPT !.url_before = sess.url]
        locOps == <<"current_url", "title", "find">>
        forceOps == IF info.is_carousel_element THEN <<"force_visible">> ELSE <<>>
        prepOps == locOps \o forceOps \o <<"scroll">>
        chkOps == prepOps \o <<"is_displayed">>
        clickOps == chkOps \o click_ops(env)
        obsOps == clickOps \o <<"current_url", "title">>
        st == observed_status(info, sess, env.after, env.modals)
        modalOps == IF ~is_dead_click_by_href(info) /\ env.after = sess
                    THEN <<"find_overlays">> ELSE <<>>
    IN
    IF env.raise.at = "start"
    THEN Raised(r0, env, sequential, sess, "start", <<"current_url">>)
    ELSE IF ~found
    THEN Outcome([r1 EXCEPT !.click_status = "element_not_found",
                            !.error_message = "not located"],
                 sess, "start", locOps)
    ELSE IF env.raise.at = "scroll"
    THEN Raised(r1, env, sequential, sess, "located", prepOps)
    ELSE IF env.raise.at = "check"
    THEN Raised(r1, env, sequential, sess, "prepared", chkOps)
    ELSE IF ~(DisplayedAtCheck(info, env) /\ env.enabled)
    THEN Outcome([r1 EXCEPT !.click_status = "not_clickable",
                            !.error_message = "not displayed or enabled"],
                 sess, "prepared", chkOps)
    ELSE IF env.raise.at = "click"
    THEN Raised(r1, env, sequential, sess, "prepared", chkOps \o <<"click">>)
    ELSE IF click_intercepted(env)
    THEN Outcome([r1 EXCEPT !.click_status = "click_intercepted",
                            !.error_message = "click intercepted"],
                 sess, "prepared", clickOps)
    ELSE IF env.raise.at = "observe"
    THEN Raised(r1, env, sequential, env.after, "clicked",
                clickOps \o <<"current_url">>)
    ELSE Outcome([r1 EXCEPT !.url_after = env.after.url,
                            !.click_status = st.click_status,
                            !.error_message = st.error_message,
                            !.page_changed = st.page_changed,
                            !.new_elements_appeared = st.new_elements_appeared],
                 env.after, "observed", obsOps \o modalOps)

\* lines 140-234
_test_element_click_with_driver(info, sess, env) ==
    ClickTest(info, sess, env, _find_element_by_info_with_driver(info, env), FALSE)

\* lines 1149-1250 (src/selenium_clickable_tester.py 1001-1125)
test_element_click(info, sess, env) ==
    ClickTest(info, sess, env,
              IF info.is_carousel_element
              THEN _find_and_prepare_carousel_element(info, env)
              ELSE _find_element_by_info(info, env),
              TRUE)

\* ---- the descriptors, sessions and driver answers a call is checked for
ClassifyHrefs ==
    {Hash, OneSpace, AboutPath, <<>>,
     InsertAt(UpperAt(JsVoid, 1), 0, " "), JsDoSomething}

Descriptors ==
    [href : ClassifyHrefs, is_carousel_element : BOOLEAN]

SessionStates == [url : {TargetUrl, OtherUrl}, title : {"T", "T2"}]

Raises ==
    {NoRaise} \cup [at : {"start", "locate", "scroll", "check", "click", "observe"},
                    kind : ExcKinds]

DriverAnswers ==
    {e \in [raise : Raises, present : BOOLEAN, displayed : BOOLEAN,
            shown : BOOLEAN, enabled : BOOLEAN, force : {"ok", "raises"},
            click : {"ok", "intercepted"}, js : {"ok", "raises"},
            after : SessionStates, modals : {"present", "absent", "raises"}] :
        \* answers never asked for are fixed, so that each behaviour of the
        \* driver is counted once
        /\ (~e.present => ~e.displayed)
        /\ (~(e.present /\ e.displayed) => e.shown /\ e.enabled)
        /\ (e.click = "ok" => e.js = "ok")
        /\ (e.raise.at = "locate" => ~e.present)
        /\ (e.raise.at \in {"start", "locate", "scroll", "check", "click"} =>
               e.click = "ok" /\ e.modals = "absent"
               /\ e.after = [url |-> TargetUrl, title |-> "T"])
        /\ (e.raise.at \in {"start", "scroll"} => e.shown /\ e.enabled)}

ClassifyIdle ==
    /\ cpc = "idle" /\ cvariant = "none"
    /\ cinfo = [href |-> <<>>, is_carousel_element |-> FALSE]
    /\ csess = [url |-> TargetUrl, title |-> "T"]
    /\ cenv = [raise |-> NoRaise]
    /\ cout = [stage |-> "start"]

ClassifyInit ==
    /\ cpc = "call" /\ cvariant = "none"
    /\ cinfo \in Descriptors
    /\ csess = [url |-> TargetUrl, title |-> "T"]
    /\ cenv \in {e \in DriverAnswers :
                    cinfo.is_carousel_element \/ e.force = "ok"}
    /\ cout = [stage |-> "start"]

TestElementClickWithDriver ==
    /\ cpc = "call"
    /\ cout' = _test_element_click_with_driver(cinfo, csess, cenv)
    /\ cvariant' = "concurrent"
    /\ cpc' = "returned"
    /\ UNCHANGED <<cinfo, csess, cenv, batchVars, hrefVars, runVars, discoveryVars, locateVars>>

TestElementClick ==
    /\ cpc = "call"
    /\ cout' = test_element_click(cinfo, csess, cenv)
    /\ cvariant' = "sequential"
    /\ cpc' = "returned"
    /\ UNCHANGED <<cinfo, csess, cenv, batchVars, hrefVars, runVars, discoveryVars, locateVars>>

(***************************************************************************)
(* run_comprehensive_test_concurrent and _test_element_batch.              *)
(*                                                                         *)
(* The coordinating thread discovers on the lead session (id 0), acquires  *)
(* the pool (ids 1..), partitions, submits one task per batch and collects *)
(* the futures as they complete.  Each task is a worker: for each element  *)
(* of its batch it checks the session's URL (WNav) and classifies (WTest). *)
(* A session can die at any driver call; every later call on it raises.    *)
(* Every driver call of _test_element_batch is inside its try (lines       *)
(* 100-134), so no exception of the driver leaves a task and the except at *)
(* line 347 has nothing to catch.                                          *)
(* The coordinating thread itself can fail while it submits the tasks      *)
(* (RunSubmitFails); it then waits for the tasks already submitted, closes *)
(* the pool and returns the error (RunAbort).                              *)
(***************************************************************************)
Lead == 0

\* The caller of the run, as a user of sessions (batch workers are 1, 2, ...).
MainThread == 0

\* overlay: the page the session shows holds an element the overlay queries
\* of lines 216-220 match.
FreshSession ==
    [url |-> "blank", title |-> "", overlay |-> FALSE, alive |-> TRUE, quit |-> FALSE,
     fatal |-> 0]

\* The descriptor discovery produces for the i-th element of the target page:
\* links to /about and buttons with href '#' in turn.  pos is the descriptor's
\* position in the discovery list; the program does not read it.
PageDescriptor(i) ==
    [pos |-> i, href |-> IF i % 2 = 1 THEN AboutPath ELSE Hash,
     is_carousel_element |-> FALSE]

\* One answer of the driver: the element is there, displayed and enabled
\* unless said otherwise, and nothing raises unless said otherwise.
Answer(raise, present, enabled, click, js, afterUrl, modals) ==
    [raise |-> raise, present |-> present, displayed |-> present, shown |-> TRUE,
     enabled |-> enabled, force |-> "ok", click |-> click, js |-> js,
     after |-> [url |-> afterUrl, title |-> "T"], modals |-> modals]

\* The driver's answers during the classifications of a run: one for each
\* way a classification can end.
RunAnswers ==
    {Answer(NoRaise, TRUE, TRUE, "ok", "ok", u, m) :
        u \in {TargetUrl, OtherUrl}, m \in {"absent", "present"}}
    \cup {Answer(NoRaise, FALSE, TRUE, "ok", "ok", TargetUrl, "absent"),
          Answer(NoRaise, TRUE, FALSE, "ok", "ok", TargetUrl, "absent"),
          Answer(NoRaise, TRUE, TRUE, "intercepted", "raises", TargetUrl, "absent"),
          Answer([at |-> "click", kind |-> "other"], TRUE, TRUE, "ok", "ok",
                 TargetUrl, "absent")}

\* The entry of answered for an element not classified yet.
NotAnswered ==
    Answer([at |-> "never", kind |-> "other"], FALSE, FALSE, "ok", "ok",
           TargetUrl, "absent")

\* The page of a session: what a reload would replace.
PageOf(sess) == [url |-> sess.url, title |-> sess.title, overlay |-> sess.overlay]

\* No current_url was read yet for the element.
NotSeen == [url |-> "none", title |-> "", overlay |-> FALSE]

\* A batch loop that reloads the target before every element.
navigate_always(current_url, url) == TRUE

\* line 102: if driver.current_url != url
needs_navigation(current_url, url) == current_url # url

\* lines 103-104: the session after driver.get(url) landed: a fresh page.
driver_get(sess, url) ==
    [sess EXCEPT !.url = url, !.title = "T", !.overlay = FALSE]

\* Every batch handed the first session of the pool.
batch_driver_first(pool, i) == pool[1]

\* line 335: driver_pool[i], the batch with (0-based) index i - 1.
batch_driver(pool, i) == pool[i]

\* An except clause of the batch loop that records the classifier's generic
\* error status.
batch_error_as_error(info, url) ==
    [element_info |-> info, click_status |-> "error",
     error_message |-> "exception", page_changed |-> FALSE,
     url_before |-> url, url_after |-> url, new_elements_appeared |-> FALSE]

\* lines 122-134: the record the batch loop appends when its try raises.
BatchError(info, url) ==
    [element_info |-> info, click_status |-> "batch_error",
     error_message |-> "exception", page_changed |-> FALSE,
     url_before |-> url, url_after |-> url, new_elements_appeared |-> FALSE]

\* A batch loop that tries an element again when its classification ended in error.
advance_retry(w, b, rec) ==
    IF rec.click_status = "error"
    THEN [w EXCEPT !.pc = "nav"]
    ELSE [w EXCEPT !.batch_results = Append(@, rec),
                   !.i = @ + 1,
                   !.pc = IF w.i = Len(run_batches[b]) THEN "done" ELSE "nav"]

\* A batch loop that gives up the batch, without a record, when its try raises.
advance_abort(w, b, rec) ==
    IF rec.click_status = "batch_error"
    THEN [w EXCEPT !.pc = "done"]
    ELSE [w EXCEPT !.batch_results = Append(@, rec),
                   !.i = @ + 1,
                   !.pc = IF w.i = Len(run_batches[b]) THEN "done" ELSE "nav"]

\* A batch loop that hangs, without returning, when its try raises.
advance_hang(w, b, rec) ==
    IF rec.click_status = "batch_error"
    THEN [w EXCEPT !.pc = "hung"]
    ELSE [w EXCEPT !.batch_results = Append(@, rec),
                   !.i = @ + 1,
                   !.pc = IF w.i = Len(run_batches[b]) THEN "done" ELSE "nav"]

\* The worker after the element at index w.i: the next element, or line
\* 136-137 (return batch_results) after the last one.
Advance(w, b, rec) ==
    [w EXCEPT !.batch_results = Append(@, rec),
              !.i = @ + 1,
              !.pc = IF w.i = Len(run_batches[b]) THEN "done" ELSE "nav"]

RunIdle ==
    /\ mpc = "idle" /\ max_workers = 1 /\ page = <<>>
    /\ clickable_elements = <<>> /\ driver_pool = <<>>
    /\ sessions = <<>> /\ run_batches = <<>> /\ workers = <<>>
    /\ collected = {} /\ test_results = <<>> /\ returned = None
    /\ classified = <<>> /\ answered = <<>> /\ touched = <<>>

\* lines 27-43: the tester as constructed, and the page it is pointed at.
RunInit ==
    /\ mpc = "start"
    /\ max_workers \in 1..MaxWorkers
    /\ \E n \in 0..MaxElems : page = [i \in 1..n |-> PageDescriptor(i)]
    /\ clickable_elements = <<>> /\ driver_pool = <<>>
    /\ sessions = [d \in {Lead} |-> FreshSession]
    /\ run_batches = <<>> /\ workers = <<>>
    /\ collected = {} /\ test_results = <<>> /\ returned = None
    /\ classified = [i \in 1..Len(page) |-> 0]
    /\ answered = [i \in 1..Len(page) |-> NotAnswered]
    /\ touched = [d \in {Lead} |-> {}]

\* line 294: find_clickable_elements(url) on self.driver.  It raises when the
\* driver does (line 701), and the run's except (376-381) returns the error.
RunDiscover ==
    /\ mpc = "start"
    /\ touched' = [touched EXCEPT ![Lead] = @ \cup {MainThread}]
    /\ \/ /\ clickable_elements' = page
          /\ sessions' = [sessions EXCEPT ![Lead].url = TargetUrl, ![Lead].title = "T"]
          /\ mpc' = "setup"
          /\ UNCHANGED returned
       \/ /\ sessions' = [sessions EXCEPT ![Lead].alive = FALSE]
          /\ returned' = [error |-> "exception"]
          /\ mpc' = "returned"
          /\ UNCHANGED clickable_elements
    /\ UNCHANGED <<max_workers, page, driver_pool, run_batches, workers, collected,
                   test_results, classified, answered, batchVars, hrefVars,
                   classifyVars,
                   discoveryVars, locateVars>>

\* A run that goes on whatever the pool holds.
pool_never_empty(pool) == FALSE

\* A run that gives up unless every requested session was acquired.
pool_is_short(pool) == Len(pool) < max_workers

\* line 301: if not driver_pool
pool_is_empty(pool) == pool = <<>>

\* lines 299-302 (_setup_driver_pool, 46-56): each of the max_workers drivers
\* is created or fails; the pool holds the m created.  An empty pool raises,
\* and the run's except returns the error.
RunSetupPool ==
    /\ mpc = "setup"
    /\ \E m \in 0..max_workers :
          /\ driver_pool' = [i \in 1..m |-> i]
          /\ sessions' = [d \in {Lead} \cup (1..m) |->
                            IF d = Lead THEN sessions[Lead] ELSE FreshSession]
          /\ touched' = [d \in {Lead} \cup (1..m) |->
                            IF d = Lead THEN touched[Lead] ELSE {}]
          /\ IF pool_is_empty(driver_pool')
             THEN returned' = [error |-> "exception"] /\ mpc' = "returned"
             ELSE mpc' = "submit" /\ UNCHANGED returned
    /\ UNCHANGED <<max_workers, page, clickable_elements, run_batches, workers,
                   collected, test_results, classified, answered,
                   batchVars, hrefVars, classifyVars,
                   discoveryVars, locateVars>>

\* lines 305-337: partition, create test_results, submit one task per batch.
RunSubmit ==
    /\ mpc = "submit"
    /\ run_batches' = _divide_elements_into_batches(clickable_elements, Len(driver_pool))
    /\ test_results' =
          [url |-> TargetUrl, total_elements_found |-> Len(clickable_elements),
           elements_tested |-> 0, active_clicks |-> 0, dead_clicks |-> 0,
           errors |-> 0, results |-> <<>>, summary |-> <<>>]
    /\ workers' = [b \in 1..Len(run_batches') |->
                     [pc |-> "nav", i |-> 1,
                      driver |-> batch_driver(driver_pool, b),
                      batch_results |-> <<>>,
                      seen |-> NotSeen, got |-> FALSE]]
    /\ mpc' = "collect"
    /\ UNCHANGED <<max_workers, page, clickable_elements, driver_pool, sessions,
                   collected, returned, classified, answered, touched,
                   batchVars, hrefVars, classifyVars,
                   discoveryVars, locateVars>>

\* lines 99-104, and 122-134 when they raise: the batch loop before an
\* element.  current_url raises on a dead session; driver.get is called when
\* the session is not on the target, and can raise or kill the session.
WNav(b) ==
    /\ mpc \in {"collect", "aborting"} /\ b \in DOMAIN workers
    /\ workers[b].pc = "nav"
    /\ LET w == workers[b]
           d == w.driver
           info == run_batches[b][w.i]
       IN /\ touched' = [touched EXCEPT ![d] = @ \cup {b}]
          /\ \/ \* the session answers and is on the target (no reload), or
                \* is brought there by driver.get (a fresh page)
                /\ sessions[d].alive
                /\ sessions' = IF needs_navigation(sessions[d].url, TargetUrl)
                               THEN [sessions EXCEPT ![d] = driver_get(@, TargetUrl)]
                               ELSE sessions
                /\ workers' = [workers EXCEPT
                                 ![b].pc = "test",
                                 ![b].seen = PageOf(sessions[d]),
                                 ![b].got = needs_navigation(sessions[d].url, TargetUrl)]
             \/ \* driver.get raises
                /\ sessions[d].alive
                /\ needs_navigation(sessions[d].url, TargetUrl)
                /\ workers' = [workers EXCEPT ![b] =
                                 Advance([w EXCEPT !.seen = PageOf(sessions[d]),
                                                   !.got = TRUE],
                                         b, BatchError(info, TargetUrl))]
                /\ UNCHANGED sessions
             \/ \* the session is dead, or dies now
                /\ sessions' = [sessions EXCEPT
                                  ![d].alive = FALSE,
                                  ![d].fatal = IF sessions[d].alive THEN info.pos ELSE @]
                /\ workers' = [workers EXCEPT ![b] = Advance(w, b, BatchError(info, TargetUrl))]
    /\ UNCHANGED <<mpc, max_workers, page, clickable_elements, driver_pool,
                   run_batches, collected, test_results, returned, classified,
                   answered,
                   batchVars, hrefVars, classifyVars,
                   discoveryVars, locateVars>>

\* lines 216-222: the overlay queries run on the page as it is: they match an
\* overlay the element's own click opened (e.modals) and one that was on the
\* page before the click.
OverlayQueries(overlay, e) ==
    [e EXCEPT !.modals = IF overlay /\ e.modals = "absent" THEN "present" ELSE @]

\* The page after a classification: a click that went through and left the
\* URL as it was adds the overlay it opened to the page; one that navigated
\* shows another page; without a click the page is as before.
OverlayAfter(sess, out, e) ==
    IF out.stage \notin {"clicked", "observed"} THEN sess.overlay
    ELSE IF out.sess.url # sess.url THEN FALSE
    ELSE sess.overlay \/ e.modals = "present"

\* The sessions a classification makes its driver calls on (lines 140-279:
\* every call goes to the driver argument).
ClassifierSessions(d) == {d}

\* lines 111-112: the classification of the element, on the batch's driver,
\* and the append of its result.  A driver call that raises may have killed
\* the session.
WTest(b) ==
    /\ mpc \in {"collect", "aborting"} /\ b \in DOMAIN workers
    /\ workers[b].pc = "test"
    /\ LET w == workers[b]
           d == w.driver
           info == run_batches[b][w.i]
       IN \E e \in RunAnswers, dies \in BOOLEAN, closes \in BOOLEAN :
            LET out == _test_element_click_with_driver(
                           info, [url |-> sessions[d].url, title |-> sessions[d].title],
                           OverlayQueries(sessions[d].overlay, e))
                overlay == OverlayAfter(sessions[d], out, e)
            IN /\ dies => e.raise.at # "none"
               /\ closes => overlay
               /\ sessions' = [sessions EXCEPT ![d].url = out.sess.url,
                                               ![d].title = out.sess.title,
                                               ![d].overlay = overlay /\ ~closes,
                                               ![d].alive = ~dies,
                                               ![d].fatal = IF dies THEN info.pos ELSE @]
               /\ answered' = [answered EXCEPT ![info.pos] = e]
               /\ touched' = [s \in DOMAIN touched |->
                                IF s \in ClassifierSessions(d)
                                THEN touched[s] \cup {b} ELSE touched[s]]
               /\ classified' = [classified EXCEPT ![info.pos] = @ + 1]
               /\ workers' = [workers EXCEPT ![b] = Advance(w, b, out.result)]
    /\ UNCHANGED <<mpc, max_workers, page, clickable_elements, driver_pool,
                   run_batches, collected, test_results, returned,
                   batchVars, hrefVars, classifyVars,
                   discoveryVars, locateVars>>

\* A merge that puts a batch's records after the first record gathered.
extend_inside(results, batch_results) ==
    IF results = <<>> THEN batch_results
    ELSE <<Head(results)>> \o batch_results \o Tail(results)

\* line 344: test_results['results'].extend(batch_results)
extend(results, batch_results) == results \o batch_results

\* lines 340-346: one round of the as_completed loop, for a future that is
\* done and not yet collected.
Collect(b) ==
    /\ mpc = "collect" /\ b \in DOMAIN workers
    /\ workers[b].pc = "done" /\ b \notin collected
    /\ test_results' =
          [test_results EXCEPT
              !.results = extend(@, workers[b].batch_results),
              !.elements_tested = @ + Len(workers[b].batch_results)]
    /\ collected' = collected \cup {b}
    /\ UNCHANGED <<mpc, max_workers, page, clickable_elements, driver_pool,
                   sessions, run_batches, workers, returned, classified, answered,
                   touched,
                   batchVars, hrefVars, classifyVars,
                   discoveryVars, locateVars>>

StartsWithActive(status) ==
    status \in {"active_navigation", "active_title_change", "active_ui_change"}

IsDead(status) == status = "dead_click"

IsOther(status) == ~StartsWithActive(status) /\ ~IsDead(status)

ActiveCount(results) ==
    Cardinality({k \in 1..Len(results) : StartsWithActive(results[k].click_status)})

DeadCount(results) ==
    Cardinality({k \in 1..Len(results) : IsDead(results[k].click_status)})

OtherCount(results) ==
    Cardinality({k \in 1..Len(results) : IsOther(results[k].click_status)})

\* A percentage that reports an empty run as all of one kind.
percentage_of_at_least_one(count, total) ==
    IF total > 0 THEN (20000 * count + total) \div (2 * total) ELSE 10000

\* lines 1403-1405: round((count / total) * 100, 2) if total > 0 else 0, in
\* hundredths of a percent.
percentage(count, total) ==
    IF total > 0 THEN (20000 * count + total) \div (2 * total) ELSE 0

\* lines 1422-1430
_get_click_status_breakdown(results) ==
    [st \in {results[k].click_status : k \in 1..Len(results)} |->
        Cardinality({k \in 1..Len(results) : results[k].click_status = st})]

\* lines 1399-1409, without most_common_classes
_generate_summary(tr) ==
    [total_tested |-> tr.elements_tested,
     active_percentage |-> percentage(tr.active_clicks, tr.elements_tested),
     dead_percentage |-> percentage(tr.dead_clicks, tr.elements_tested),
     error_percentage |-> percentage(tr.errors, tr.elements_tested),
     click_status_breakdown |-> _get_click_status_breakdown(tr.results)]

\* lines 354-363: the counting loop, then the summary
counted(tr) ==
    LET c == [tr EXCEPT !.active_clicks = ActiveCount(tr.results),
                        !.dead_clicks = DeadCount(tr.results),
                        !.errors = OtherCount(tr.results)]
    IN [c EXCEPT !.summary = _generate_summary(c)]

\* A cleanup that closes the tester's own (empty) self.driver_pool.
close_attribute_pool(sess, pool) == sess

\* lines 61-68: quit() is called on every driver of the pool; one that raises
\* is reported and the loop goes on.
_close_driver_pool(sess, pool) ==
    [d \in DOMAIN sess |->
        IF \E i \in 1..Len(pool) : pool[i] = d
        THEN [sess[d] EXCEPT !.quit = TRUE] ELSE sess[d]]

\* lines 332-337 raising (the executor cannot start a thread for a task it is
\* handed): k of the tasks, and not all, were submitted.  Leaving the with block waits for them (aborting) before
\* the except of line 376 runs.
RunSubmitFails ==
    /\ mpc = "submit"
    /\ run_batches' = _divide_elements_into_batches(clickable_elements, Len(driver_pool))
    /\ test_results' =
          [url |-> TargetUrl, total_elements_found |-> Len(clickable_elements),
           elements_tested |-> 0, active_clicks |-> 0, dead_clicks |-> 0,
           errors |-> 0, results |-> <<>>, summary |-> <<>>]
    /\ \E k \in 0..Len(run_batches') :
          /\ k < Len(run_batches')
          /\ workers' = [b \in 1..k |->
                           [pc |-> "nav", i |-> 1,
                            driver |-> batch_driver(driver_pool, b),
                            batch_results |-> <<>>,
                      seen |-> NotSeen, got |-> FALSE]]
    /\ mpc' = "aborting"
    /\ UNCHANGED <<max_workers, page, clickable_elements, driver_pool, sessions,
                   collected, returned, classified, answered, touched,
                   batchVars, hrefVars, classifyVars, discoveryVars, locateVars>>

\* lines 376-381: the tasks submitted have ended; the pool is closed and the
\* error is returned.
RunAbort ==
    /\ mpc = "aborting"
    /\ \A b \in DOMAIN workers : workers[b].pc = "done"
    /\ sessions' = _close_driver_pool(sessions, driver_pool)
    /\ returned' = [error |-> "exception"]
    /\ mpc' = "returned"
    /\ UNCHANGED <<max_workers, page, clickable_elements, driver_pool,
                   run_batches, workers, collected, test_results, classified,
                   answered, touched,
                   batchVars, hrefVars, classifyVars, discoveryVars, locateVars>>

\* lines 350-374: every future was collected; count, close the pool, return.
RunFinish ==
    /\ mpc = "collect"
    /\ collected = DOMAIN workers
    /\ test_results' = counted(test_results)
    /\ sessions' = _close_driver_pool(sessions, driver_pool)
    /\ returned' = test_results'
    /\ mpc' = "returned"
    /\ UNCHANGED <<max_workers, page, clickable_elements, driver_pool,
                   run_batches, workers, collected, classified, answered, touched,
                   batchVars, hrefVars, classifyVars,
                   discoveryVars, locateVars>>

(***************************************************************************)
(* find_clickable_elements: one discovery pass over the target page.       *)
(*                                                                         *)
(* The page is a list of elements in document order.  An element carries   *)
(* the five fields of the deduplication key and what the sweeps ask the    *)
(* driver about it.  displayed is is_displayed() at the time of the        *)
(* regular sweeps, that is after the carousel path has forced its slides   *)
(* visible (lines 576-585; the styles are not restored).  slide says that  *)
(* the element sits in a slide of a displayed carousel container outside   *)
(* header and footer.  The selector catalogues are represented by their    *)
(* entries 'a' and '.btn'.                                                 *)
(***************************************************************************)
Bar == <<"|">>

BtnClass == <<"b", "t", "n">>

\* line 1038: f"{tag_name}|{text}|{href}|{class_names}|{element_id}"
dedup_key(tag_name, text, href, class_names, element_id) ==
    tag_name \o Bar \o text \o Bar \o href \o Bar \o class_names \o Bar \o element_id

\* line 1039: the digest of the key; collisions of the digest are not modelled.
md5(key) == key

\* lines 1135-1142: the carousel path's identifier, over tag, id, classes,
\* text and location (the location is the element's place in the page).
_create_unique_id(tag_name, element_id, class_names, text, location) ==
    <<tag_name, element_id, class_names, text, location>>

PlainLink ==
    [tag_name |-> <<"a">>, text |-> <<"x">>, href |-> AboutPath,
     class_names |-> <<>>, id |-> <<>>,
     displayed |-> TRUE, enabled |-> TRUE, excluded |-> FALSE,
     pointer |-> FALSE, listener |-> FALSE, in_main |-> TRUE, slide |-> FALSE]

PlainDiv == [PlainLink EXCEPT !.tag_name = <<"d", "i", "v">>, !.href = <<>>]

\* The kinds of element a page is made of.
ElementKinds ==
    {PlainLink,
     [PlainLink EXCEPT !.class_names = BtnClass, !.pointer = TRUE],
     [PlainLink EXCEPT !.displayed = FALSE],
     [PlainLink EXCEPT !.excluded = TRUE, !.in_main = FALSE],
     [PlainLink EXCEPT !.slide = TRUE],
     [PlainLink EXCEPT !.text = <<"y">>, !.class_names = BtnClass, !.slide = TRUE],
     [PlainDiv EXCEPT !.pointer = TRUE],
     [PlainDiv EXCEPT !.listener = TRUE, !.in_main = FALSE],
     [PlainDiv EXCEPT !.text = <<"z">>, !.listener = TRUE],
     [PlainDiv EXCEPT !.class_names = BtnClass, !.enabled = FALSE]}

Pages == UNION {[1..n -> ElementKinds] : n \in 0..MaxDom}

\* lines 767-769, 775: the structural catalogue, by two of its entries.
StructuralSelectors == <<"a", ".btn">>

\* lines 590-592: the catalogue of the slide extraction, by the same entries.
SlideSelectors == <<"a", ".btn">>

\* A CSS selector of the catalogues against an element.
Matches(selector, el) ==
    IF selector = "a" THEN el.tag_name = <<"a">> ELSE el.class_names = BtnClass

\* A query of discovery that throws: the find_elements of a selector of the
\* structural catalogue (lines 810-812) or of the slide catalogue (line 598),
\* the script of the cursor-style or of the event-listener sweep (lines 841,
\* 871), or the queries for carousel containers (lines 748-750).
Fault(source, selector) == [source |-> source, selector |-> selector]

FaultSets ==
    {{}, {Fault("structural", "a")}, {Fault("structural", ".btn")},
     {Fault("pointer", "*")}, {Fault("listener", "*")}, {Fault("carousel", "*")},
     {Fault("slide", "a")},
     {Fault("structural", "a"), Fault("listener", "*")},
     {Fault("pointer", "*"), Fault("slide", ".btn")}}

RECURSIVE KeepIn(_, _)
KeepIn(nodes, S) ==
    IF nodes = <<>> THEN <<>>
    ELSE (IF Head(nodes) \in S THEN <<Head(nodes)>> ELSE <<>>) \o KeepIn(Tail(nodes), S)

AllNodes(d) == [i \in 1..Len(d) |-> i]

\* lines 810-812: find_elements on the main content area when there is one,
\* on the whole document otherwise; the matches come in document order.
find_elements(d, main, selector) ==
    KeepIn(AllNodes(d),
           {i \in 1..Len(d) : Matches(selector, d[i]) /\ (main => d[i].in_main)})

\* lines 926-986: the header/footer exclusion test.
_is_in_header_or_footer(el) == el.excluded

\* lines 990-1011: the script passed to execute_script has an unbalanced ')'
\* at line 1003, so the call raises and the except returns False.
_is_carousel_element(el) == FALSE

\* lines 814-817, 852-854, 884-886: the condition of the three sweeps.
Admitted(el) ==
    /\ el.displayed /\ el.enabled
    /\ ~_is_in_header_or_footer(el)
    /\ ~_is_carousel_element(el)

\* The descriptor of element el, the n-th of the page (its xpath is n).
Descriptor(el, n, unique_id, method, carousel) ==
    [tag_name |-> el.tag_name, text |-> el.text, class_names |-> el.class_names,
     id |-> el.id, href |-> el.href, xpath |-> n,
     is_displayed |-> IF carousel THEN TRUE ELSE el.displayed,
     is_enabled |-> el.enabled, unique_id |-> unique_id,
     detection_method |-> method, is_carousel_element |-> carousel]

\* An extraction that does not consult self.seen_elements.
extract_without_seen(el, n, seen) ==
    [found |-> TRUE,
     info |-> Descriptor(el, n,
                  md5(dedup_key(el.tag_name, el.text, el.href, el.class_names, el.id)),
                  "none", FALSE),
     seen |-> seen]

\* lines 1028-1079: None (found FALSE) for a fingerprint already in
\* self.seen_elements, else the descriptor, and the fingerprint is recorded.
_extract_element_info(el, n, seen) ==
    LET unique_id == md5(dedup_key(el.tag_name, el.text, el.href, el.class_names, el.id))
    IN IF unique_id \in seen
       THEN [found |-> FALSE, info |-> None, seen |-> seen]
       ELSE [found |-> TRUE, info |-> Descriptor(el, n, unique_id, "none", FALSE),
             seen |-> seen \cup {unique_id}]

\* lines 633-685: the carousel path's descriptor; no fingerprint set is read
\* or written.
_extract_element_info_for_hidden(el, n) ==
    Descriptor(el, n, _create_unique_id(el.tag_name, el.id, el.class_names, el.text, n),
               "none", TRUE)

\* lines 813-823: the elements one selector matched, in order.
RECURSIVE element_loop(_, _, _, _, _)
element_loop(d, nodes, seen, unique_ids, out) ==
    IF nodes = <<>> THEN [seen |-> seen, unique_ids |-> unique_ids, out |-> out]
    ELSE LET n == Head(nodes)
             r == _extract_element_info(d[n], n, seen)
         IN IF ~Admitted(d[n])
            THEN element_loop(d, Tail(nodes), seen, unique_ids, out)
            ELSE IF r.found /\ r.info.unique_id \notin unique_ids
                 THEN element_loop(d, Tail(nodes), r.seen,
                                   unique_ids \cup {r.info.unique_id}, Append(out, r.info))
                 ELSE element_loop(d, Tail(nodes), r.seen, unique_ids, out)

\* A structural sweep that ends at the first selector that throws.
RECURSIVE selector_loop_abort(_, _, _, _, _, _, _)
selector_loop_abort(d, main, selectors, thrown, seen, unique_ids, out) ==
    IF selectors = <<>> THEN [seen |-> seen, out |-> out]
    ELSE IF Fault("structural", Head(selectors)) \in thrown
    THEN [seen |-> seen, out |-> out]
    ELSE LET r == element_loop(d, find_elements(d, main, Head(selectors)),
                               seen, unique_ids, out)
         IN selector_loop_abort(d, main, Tail(selectors), thrown,
                                r.seen, r.unique_ids, r.out)

\* lines 808-828: a selector whose find_elements throws is reported (line
\* 827-828) and the loop goes on with the next selector.
RECURSIVE selector_loop(_, _, _, _, _, _, _)
selector_loop(d, main, selectors, thrown, seen, unique_ids, out) ==
    IF selectors = <<>> THEN [seen |-> seen, out |-> out]
    ELSE IF Fault("structural", Head(selectors)) \in thrown
    THEN selector_loop(d, main, Tail(selectors), thrown, seen, unique_ids, out)
    ELSE LET r == element_loop(d, find_elements(d, main, Head(selectors)),
                               seen, unique_ids, out)
         IN selector_loop(d, main, Tail(selectors), thrown,
                          r.seen, r.unique_ids, r.out)

\* lines 850-861 and 882-893: the loop of the cursor-style and of the
\* event-listener sweep.
RECURSIVE auxiliary_loop(_, _, _, _, _)
auxiliary_loop(d, nodes, method, seen, out) ==
    IF nodes = <<>> THEN [seen |-> seen, out |-> out]
    ELSE LET n == Head(nodes)
             r == _extract_element_info(d[n], n, seen)
         IN IF ~Admitted(d[n])
            THEN auxiliary_loop(d, Tail(nodes), method, seen, out)
            ELSE IF r.found
                 THEN auxiliary_loop(d, Tail(nodes), method, r.seen,
                          Append(out, [r.info EXCEPT !.detection_method = method]))
                 ELSE auxiliary_loop(d, Tail(nodes), method, r.seen, out)

\* lines 837-865: document.querySelectorAll('*') filtered by cursor style.
_find_elements_by_pointer_cursor(d, thrown, seen) ==
    IF Fault("pointer", "*") \in thrown THEN [seen |-> seen, out |-> <<>>]
    ELSE
    auxiliary_loop(d, KeepIn(AllNodes(d), {i \in 1..Len(d) : d[i].pointer}),
                   "pointer_cursor", seen, <<>>)

\* lines 867-899: document.querySelectorAll('*') filtered by click handlers.
_find_elements_by_event_listeners(d, thrown, seen) ==
    IF Fault("listener", "*") \in thrown THEN [seen |-> seen, out |-> <<>>]
    ELSE
    auxiliary_loop(d, KeepIn(AllNodes(d), {i \in 1..Len(d) : d[i].listener}),
                   "event_listener", seen, <<>>)

\* lines 766-835.
_find_regular_clickables(d, main, thrown, seen) ==
    LET s == selector_loop(d, main, StructuralSelectors, thrown, seen, {}, <<>>)
        p == _find_elements_by_pointer_cursor(d, thrown, s.seen)
        l == _find_elements_by_event_listeners(d, thrown, p.seen)
    IN [seen |-> l.seen, out |-> s.out \o p.out \o l.out]

\* lines 600-609: the elements of a slide one selector matched.
RECURSIVE slide_element_loop(_, _, _)
slide_element_loop(d, nodes, out) ==
    IF nodes = <<>> THEN out
    ELSE LET n == Head(nodes)
         IN slide_element_loop(d, Tail(nodes),
                IF d[n].enabled
                THEN Append(out, _extract_element_info_for_hidden(d[n], n))
                ELSE out)

\* lines 571-631, for the slides reached through lines 730-762 and 417-455.
RECURSIVE _extract_clickables_from_slide(_, _, _, _, _)
_extract_clickables_from_slide(d, main, selectors, thrown, out) ==
    IF selectors = <<>> THEN out
    ELSE IF Fault("slide", Head(selectors)) \in thrown
    THEN _extract_clickables_from_slide(d, main, Tail(selectors), thrown, out)
    ELSE _extract_clickables_from_slide(d, main, Tail(selectors), thrown,
            slide_element_loop(d,
                KeepIn(find_elements(d, main, Head(selectors)),
                       {i \in 1..Len(d) : d[i].slide}),
                out))

\* lines 730-762.
_find_carousel_elements(d, main, thrown) ==
    IF Fault("carousel", "*") \in thrown THEN <<>>
    ELSE _extract_clickables_from_slide(d, main, SlideSelectors, thrown, <<>>)

\* A discovery whose carousel path records its fingerprints in
\* self.seen_elements before the regular sweeps run.
find_clickable_elements_shared_set(d, main, thrown, seen) ==
    LET carousel_elements == _find_carousel_elements(d, main, thrown)
        carousel_seen ==
            {md5(dedup_key(carousel_elements[k].tag_name, carousel_elements[k].text,
                           carousel_elements[k].href, carousel_elements[k].class_names,
                           carousel_elements[k].id)) : k \in 1..Len(carousel_elements)}
        regular == _find_regular_clickables(d, main, thrown, seen \cup carousel_seen)
    IN [list |-> regular.out \o carousel_elements, seen |-> regular.seen]

\* A discovery that returns the carousel descriptors ahead of the others.
find_clickable_elements_carousel_first(d, main, thrown, seen) ==
    LET carousel_elements == _find_carousel_elements(d, main, thrown)
        regular == _find_regular_clickables(d, main, thrown, seen)
    IN [list |-> carousel_elements \o regular.out, seen |-> regular.seen]

\* lines 697-728: the list returned, and self.seen_elements afterwards.
find_clickable_elements(d, main, thrown, seen) ==
    LET carousel_elements == _find_carousel_elements(d, main, thrown)
        regular == _find_regular_clickables(d, main, thrown, seen)
    IN [list |-> regular.out \o carousel_elements, seen |-> regular.seen]

DiscoveryIdle ==
    /\ dpc = "idle" /\ dom = <<>> /\ main_content_area = FALSE
    /\ tester = 1 /\ seen_elements = {} /\ passes = <<>>
    /\ faults = {}

\* lines 27-43: a tester as constructed (line 41: seen_elements = set()),
\* and the page it will be pointed at.
DiscoveryInit ==
    /\ dpc = "ready"
    /\ dom \in Pages
    /\ main_content_area \in BOOLEAN
    /\ tester = 1
    /\ seen_elements = {}
    /\ passes = <<>>
    /\ faults = {}

\* The same, on a page some of whose queries throw.
DiscoveryFaultsInit ==
    /\ dpc = "ready"
    /\ dom \in Pages
    /\ main_content_area \in BOOLEAN
    /\ tester = 1
    /\ seen_elements = {}
    /\ passes = <<>>
    /\ faults \in FaultSets

\* lines 697-728: one call of find_clickable_elements on the tester in use.
\* The page is reloaded by line 701 and is the same at every pass.
FindClickableElements ==
    /\ dpc = "ready"
    /\ Len(passes) < MaxPasses
    /\ LET r == find_clickable_elements(dom, main_content_area, faults, seen_elements)
       IN /\ passes' = Append(passes, [tester |-> tester,
                                       seen_before |-> seen_elements,
                                       result |-> r.list])
          /\ seen_elements' = r.seen
    /\ UNCHANGED <<dpc, dom, main_content_area, tester, faults,
                   batchVars, hrefVars, classifyVars, runVars, locateVars>>

\* lines 27-43: the caller constructs another tester and goes on with it.
NewTester ==
    /\ dpc = "ready"
    /\ tester < MaxTesters
    /\ tester' = tester + 1
    /\ seen_elements' = {}
    /\ UNCHANGED <<dpc, dom, main_content_area, passes, faults,
                   batchVars, hrefVars, classifyVars, runVars, locateVars>>

(***************************************************************************)
(* The locator: _find_element_by_info_with_driver, _find_element_by_info   *)
(* and _find_element_by_info_in_container, strategy by strategy.           *)
(*                                                                         *)
(* A descriptor is [id, xpath, class_names, tag_name, text].  The driver   *)
(* answers each strategy's find_elements with an exception or with a list  *)
(* of candidates [stale, displayed, tag_name, text]; every call on a stale *)
(* candidate raises.  A lookup returns [found, strategy, index]: the       *)
(* candidate at index of the answer to strategy, or None.                  *)
(* The classifier model above abstracts an answer into env.present (some   *)
(* candidate has the tag and the text) and env.displayed.                  *)
(***************************************************************************)
TextLimit == 100

RECURSIVE lstrip(_)
lstrip(s) == IF s # <<>> /\ Head(s) = " " THEN lstrip(Tail(s)) ELSE s

RECURSIVE rstrip(_)
rstrip(s) ==
    IF s # <<>> /\ s[Len(s)] = " " THEN rstrip(SubSeq(s, 1, Len(s) - 1)) ELSE s

\* str.strip()
strip(s) == rstrip(lstrip(s))

\* element.text.strip()[:100]
truncated_text(s) == SubSeq(strip(s), 1, Min(Len(strip(s)), TextLimit))

\* lines 239-243: the strategies By.ID, By.XPATH, By.CSS_SELECTOR in this
\* order; FALSE stands for the None of a strategy the descriptor has no value
\* for.
strategies(info) ==
    <<info.id # <<>>, info.xpath # "xpath_unavailable", info.class_names # <<>>>>

\* An acceptance that never asks is_displayed().
accepts_undisplayed(displayed_required, info, element) ==
    /\ element.tag_name = info.tag_name
    /\ truncated_text(element.text) = info.text

\* lines 247-249 and 1325-1327 (displayed_required), 1283-1284 (not): the
\* condition under which a candidate is returned.
accepts(displayed_required, info, element) ==
    /\ displayed_required => element.displayed
    /\ element.tag_name = info.tag_name
    /\ truncated_text(element.text) = info.text

\* lines 246-250: the index of the first candidate accepted, 0 when the list
\* is exhausted, -1 when a call on a candidate raised.
RECURSIVE candidate_loop(_, _, _, _)
candidate_loop(displayed_required, info, candidates, k) ==
    IF k > Len(candidates) THEN 0
    ELSE IF candidates[k].stale THEN -1
    ELSE IF accepts(displayed_required, info, candidates[k]) THEN k
    ELSE candidate_loop(displayed_required, info, candidates, k + 1)

NotLocated == [found |-> FALSE, strategy |-> 0, index |-> 0]

\* lines 244-257: the strategies in order; one that is None, whose
\* find_elements raises or whose candidates raise is left for the next.
RECURSIVE strategy_loop(_, _, _, _)
strategy_loop(displayed_required, info, answers, s) ==
    IF s > Len(strategies(info)) THEN NotLocated
    ELSE IF ~strategies(info)[s] \/ answers[s].raises
    THEN strategy_loop(displayed_required, info, answers, s + 1)
    ELSE LET k == candidate_loop(displayed_required, info, answers[s].elements, 1)
         IN IF k > 0 THEN [found |-> TRUE, strategy |-> s, index |-> k]
            ELSE strategy_loop(displayed_required, info, answers, s + 1)

\* lines 237-257, with the strategies' answers in place of the driver
LocateWithDriver(info, answers) == strategy_loop(TRUE, info, answers, 1)

\* lines 1315-1335
LocateOnLead(info, answers) == strategy_loop(TRUE, info, answers, 1)

\* lines 1272-1291
_find_element_by_info_in_container(info, answers) ==
    strategy_loop(FALSE, info, answers, 1)

\* ---- the descriptors and answers a lookup is checked for
Go == <<"G", "o">>
Xs(n) == [i \in 1..n |-> "x"]

\* Descriptors as discovery writes them: text is stripped and truncated.
LocateDescriptors ==
    [id : {<<>>, <<"i">>}, xpath : {"xpath_unavailable", "/p"},
     class_names : {<<>>, <<"c">>}, tag_name : {"a"},
     text : {Go, Xs(TextLimit)}]

Candidate(stale, displayed, tag_name, text) ==
    [stale |-> stale, displayed |-> displayed, tag_name |-> tag_name, text |-> text]

Shown == Candidate(FALSE, TRUE, "a", Go)
Hidden == Candidate(FALSE, FALSE, "a", Go)
OtherTag == Candidate(FALSE, TRUE, "div", Go)
OtherText == Candidate(FALSE, TRUE, "a", <<"N", "o">>)
Stale == Candidate(TRUE, TRUE, "a", Go)
Padded == Candidate(FALSE, TRUE, "a", <<" ">> \o Go \o <<" ">>)
Long == Candidate(FALSE, TRUE, "a", Xs(TextLimit + 1))

Elements(es) == [raises |-> FALSE, elements |-> es]

StrategyAnswers ==
    {[raises |-> TRUE, elements |-> <<>>],
     Elements(<<>>), Elements(<<Shown>>), Elements(<<Hidden>>),
     Elements(<<Hidden, Shown>>), Elements(<<OtherTag, Shown>>),
     Elements(<<OtherText>>), Elements(<<Stale, Shown>>),
     Elements(<<Padded>>), Elements(<<Long>>), Elements(<<Shown, Shown>>)}

LocateIdle ==
    /\ lpc = "idle" /\ lvariant = "none"
    /\ linfo = [id |-> <<>>]
    /\ lanswers = <<>>
    /\ lout = NotLocated

LocateInit ==
    /\ lpc = "call" /\ lvariant = "none"
    /\ linfo \in LocateDescriptors
    /\ lanswers \in [1..3 -> StrategyAnswers]
    /\ lout = NotLocated

FindElementByInfoWithDriver ==
    /\ lpc = "call"
    /\ lout' = LocateWithDriver(linfo, lanswers)
    /\ lvariant' = "with_driver"
    /\ lpc' = "returned"
    /\ UNCHANGED <<linfo, lanswers, batchVars, hrefVars, classifyVars, runVars,
                   discoveryVars>>

FindElementByInfo ==
    /\ lpc = "call"
    /\ lout' = LocateOnLead(linfo, lanswers)
    /\ lvariant' = "lead"
    /\ lpc' = "returned"
    /\ UNCHANGED <<linfo, lanswers, batchVars, hrefVars, classifyVars, runVars,
                   discoveryVars>>

FindElementByInfoInContainer ==
    /\ lpc = "call"
    /\ lout' = _find_element_by_info_in_container(linfo, lanswers)
    /\ lvariant' = "in_container"
    /\ lpc' = "returned"
    /\ UNCHANGED <<linfo, lanswers, batchVars, hrefVars, classifyVars, runVars,
                   discoveryVars>>

(***************************************************************************)
(* Specifications                                                          *)
(***************************************************************************)
InitBatch == BatchInit /\ HrefIdle /\ ClassifyIdle /\ RunIdle /\ DiscoveryIdle /\ LocateIdle
NextBatch == DivideElements
SpecBatch == InitBatch /\ [][NextBatch]_vars

InitHref == HrefInit /\ BatchIdle /\ ClassifyIdle /\ RunIdle /\ DiscoveryIdle /\ LocateIdle
NextHref == IsDeadClickByHref
SpecHref == InitHref /\ [][NextHref]_vars

InitClassify == ClassifyInit /\ BatchIdle /\ HrefIdle /\ RunIdle /\ DiscoveryIdle /\ LocateIdle
NextClassify == TestElementClickWithDriver \/ TestElementClick
SpecClassify == InitClassify /\ [][NextClassify]_vars

Init == RunInit /\ BatchIdle /\ HrefIdle /\ ClassifyIdle /\ DiscoveryIdle /\ LocateIdle
Next ==
    \/ RunDiscover
    \/ RunSetupPool
    \/ RunSubmit
    \/ RunSubmitFails
    \/ RunAbort
    \/ \E b \in 1..MaxWorkers : WNav(b)
    \/ \E b \in 1..MaxWorkers : WTest(b)
    \/ \E b \in 1..MaxWorkers : Collect(b)
    \/ RunFinish
Spec == Init /\ [][Next]_vars

\* The steps of the coordinating thread.
MainThreadStep ==
    \/ RunDiscover \/ RunSetupPool \/ RunSubmit \/ RunSubmitFails
    \/ RunAbort \/ RunFinish
    \/ \E b \in 1..MaxWorkers : Collect(b)

\* line 332: the executor has one thread per session of the pool, and there
\* are no more batches than sessions, so every submitted task has a thread of
\* its own; the threads and the coordinating thread are scheduled fairly, and
\* a driver call returns or raises.
Fairness ==
    /\ WF_vars(MainThreadStep)
    /\ \A b \in 1..MaxWorkers : WF_vars(WNav(b)) /\ WF_vars(WTest(b))

SpecLive == Init /\ [][Next]_vars /\ Fairness

(***************************************************************************)
(* The sequential run: run_comprehensive_test (lines 1337-1397), on the    *)
(* tester's own driver.                                                    *)
(***************************************************************************)

\* lines 27-43: the tester as constructed, and the page it is pointed at.
SeqInit ==
    /\ mpc = "seq_start"
    /\ max_workers = 1
    /\ \E n \in 0..MaxElems : page = [i \in 1..n |-> PageDescriptor(i)]
    /\ clickable_elements = <<>> /\ driver_pool = <<>>
    /\ sessions = [d \in {Lead} |-> FreshSession]
    /\ run_batches = <<>> /\ workers = <<>>
    /\ collected = {} /\ test_results = <<>> /\ returned = None
    /\ classified = [i \in 1..Len(page) |-> 0]
    /\ answered = [i \in 1..Len(page) |-> NotAnswered]
    /\ touched = [d \in {Lead} |-> {}]

\* lines 1346-1358: discovery, then the empty test_results.  A discovery
\* that raises is caught at 1395-1397.
SeqDiscover ==
    /\ mpc = "seq_start"
    /\ touched' = [touched EXCEPT ![Lead] = @ \cup {MainThread}]
    /\ \/ /\ clickable_elements' = page
          /\ sessions' = [sessions EXCEPT ![Lead].url = TargetUrl, ![Lead].title = "T"]
          /\ test_results' =
                [url |-> TargetUrl, total_elements_found |-> Len(page),
                 elements_tested |-> 0, active_clicks |-> 0, dead_clicks |-> 0,
                 errors |-> 0, results |-> <<>>, summary |-> <<>>]
          /\ mpc' = "seq_loop"
          /\ UNCHANGED returned
       \/ /\ sessions' = [sessions EXCEPT ![Lead].alive = FALSE]
          /\ returned' = [error |-> "exception"]
          /\ mpc' = "returned"
          /\ UNCHANGED <<clickable_elements, test_results>>
    /\ UNCHANGED <<max_workers, page, driver_pool, run_batches, workers, collected,
                   classified, answered, batchVars, hrefVars, classifyVars,
                   discoveryVars, locateVars>>

\* A loop that counts an active result as dead as well.
seq_count_twice(tr, result) ==
    [tr EXCEPT !.results = Append(@, result),
               !.elements_tested = @ + 1,
               !.active_clicks = IF StartsWithActive(result.click_status) THEN @ + 1 ELSE @,
               !.dead_clicks = IF ~IsOther(result.click_status) THEN @ + 1 ELSE @,
               !.errors = IF IsOther(result.click_status) THEN @ + 1 ELSE @]

\* lines 1377-1389: append the result and update the counters
seq_count(tr, result) ==
    [tr EXCEPT !.results = Append(@, result),
               !.elements_tested = @ + 1,
               !.active_clicks = IF StartsWithActive(result.click_status) THEN @ + 1 ELSE @,
               !.dead_clicks = IF IsDead(result.click_status) THEN @ + 1 ELSE @,
               !.errors = IF IsOther(result.click_status) THEN @ + 1 ELSE @]

\* lines 1360-1389: one round of the loop.  driver.get (1366, 1372) is
\* outside test_element_click's try: when it raises, the except of 1395
\* returns the error.  Otherwise the element is classified on self.driver
\* and counted.
SeqTest ==
    /\ mpc = "seq_loop"
    /\ Len(test_results.results) < Len(clickable_elements)
    /\ LET info == clickable_elements[Len(test_results.results) + 1]
       IN /\ touched' = [touched EXCEPT ![Lead] = @ \cup {MainThread}]
          /\ \/ \* driver.get or current_url raises
                /\ sessions' = [sessions EXCEPT
                                  ![Lead].alive = FALSE,
                                  ![Lead].fatal = IF sessions[Lead].alive
                                                  THEN info.pos ELSE @]
                /\ returned' = [error |-> "exception"]
                /\ mpc' = "returned"
                /\ UNCHANGED <<test_results, classified, answered>>
             \/ /\ sessions[Lead].alive
                /\ \E e \in RunAnswers, dies \in BOOLEAN :
                     LET landed == driver_get(sessions[Lead], TargetUrl)
                         out == test_element_click(
                                    info, [url |-> landed.url, title |-> landed.title],
                                    OverlayQueries(landed.overlay, e))
                     IN /\ dies => e.raise.at # "none"
                        /\ sessions' =
                              [sessions EXCEPT
                                 ![Lead].url = out.sess.url,
                                 ![Lead].title = out.sess.title,
                                 ![Lead].overlay = OverlayAfter(landed, out, e),
                                 ![Lead].alive = ~dies,
                                 ![Lead].fatal = IF dies THEN info.pos ELSE @]
                        /\ answered' = [answered EXCEPT ![info.pos] = e]
                        /\ classified' = [classified EXCEPT ![info.pos] = @ + 1]
                        /\ test_results' = seq_count(test_results, out.result)
                /\ UNCHANGED <<mpc, returned>>
    /\ UNCHANGED <<max_workers, page, clickable_elements, driver_pool, run_batches,
                   workers, collected, batchVars, hrefVars, classifyVars,
                   discoveryVars, locateVars>>

\* lines 1391-1393: the summary, and the return.
SeqFinish ==
    /\ mpc = "seq_loop"
    /\ Len(test_results.results) = Len(clickable_elements)
    /\ test_results' = [test_results EXCEPT !.summary = _generate_summary(test_results)]
    /\ returned' = test_results'
    /\ mpc' = "returned"
    /\ UNCHANGED <<max_workers, page, clickable_elements, driver_pool, sessions,
                   run_batches, workers, collected, classified, answered, touched,
                   batchVars, hrefVars, classifyVars, discoveryVars, locateVars>>

\* A tester runs one of the two: the concurrent run or the sequential one.
InitRuns ==
    /\ RunInit \/ SeqInit
    /\ BatchIdle /\ HrefIdle /\ ClassifyIdle /\ DiscoveryIdle /\ LocateIdle
NextSequential == SeqDiscover \/ SeqTest \/ SeqFinish
NextRuns == Next \/ NextSequential
SpecRuns == InitRuns /\ [][NextRuns]_vars

InitDiscovery == DiscoveryInit /\ BatchIdle /\ HrefIdle /\ ClassifyIdle /\ RunIdle /\ LocateIdle
NextDiscovery == FindClickableElements \/ NewTester
SpecDiscovery == InitDiscovery /\ [][NextDiscovery]_vars

InitDiscoveryFaults ==
    DiscoveryFaultsInit /\ BatchIdle /\ HrefIdle /\ ClassifyIdle /\ RunIdle /\ LocateIdle
NextDiscoveryFaults == FindClickableElements
SpecDiscoveryFaults == InitDiscoveryFaults /\ [][NextDiscoveryFaults]_vars

InitLocate ==
    LocateInit /\ BatchIdle /\ HrefIdle /\ ClassifyIdle /\ RunIdle /\ DiscoveryIdle
NextLocate == FindElementByInfoWithDriver \/ FindElementByInfo
              \/ FindElementByInfoInContainer
SpecLocate == InitLocate /\ [][NextLocate]_vars

(***************************************************************************)
(* Claims                                                                  *)
(***************************************************************************)
RECURSIVE SumLen(_)
SumLen(bs) == IF bs = <<>> THEN 0 ELSE Len(Head(bs)) + SumLen(Tail(bs))

Floor(n, k) == n \div k
Ceil(n, k) == (n + k - 1) \div k

\* The positions (descriptors are their positions) held by batch b.
Members(batch) == {batch[j] : j \in 1..Len(batch)}

\* C1: for every list of N descriptors and every K >= 1, every returned batch
\* has floor(N/K) or ceil(N/K) elements, the sizes sum to N, and no list
\* position appears in two batches (nor twice in one).
C1_BatchSizes ==
    bpc = "returned" =>
        /\ \A b \in 1..Len(batches) :
              Len(batches[b]) \in {Floor(Len(elements), num_batches),
                                   Ceil(Len(elements), num_batches)}
        /\ SumLen(batches) = Len(elements)
        /\ \A b \in 1..Len(batches) :
              Cardinality(Members(batches[b])) = Len(batches[b])
        /\ \A b, c \in 1..Len(batches) :
              b # c => Members(batches[b]) \cap Members(batches[c]) = {}

\* A list that does not divide evenly was partitioned: both sizes occur.
C1_Witness ==
    /\ bpc = "returned"
    /\ Len(elements) % num_batches # 0
    /\ Len(elements) > num_batches
    /\ \E b, c \in 1..Len(batches) : Len(batches[b]) = Len(batches[c]) + 1

\* C2 as claimed: the number of batches returned equals num_batches, also
\* when the list is shorter than num_batches.
C2_Original == bpc = "returned" => Len(batches) = num_batches

\* C2 as amended: the number of batches returned is min(N, num_batches): it is
\* num_batches when N >= num_batches, and N (one element each, no empty batch)
\* when N < num_batches.
C2_BatchCount ==
    bpc = "returned" =>
        /\ Len(batches) = Min(Len(elements), num_batches)
        /\ \A b \in 1..Len(batches) : batches[b] # <<>>

\* A list shorter than num_batches was partitioned.
C2_Witness ==
    /\ bpc = "returned"
    /\ 0 < Len(elements)
    /\ Len(elements) < num_batches
    /\ Len(batches) = Len(elements)

\* What C3 says is_dead_click_by_href computes: true exactly for the four
\* literals, compared without spaces and without case, the single space being
\* one of them.
ClaimedDead(h) ==
    \/ lower(replace_spaces(h)) \in {JsVoid, JsVoid2, Hash}
    \/ h = OneSpace

\* C3: is_dead_click_by_href returns true exactly when the href is one of
\* 'javascript:void(0)', 'javascript::void(0)', '#' or a single space (case
\* and spaces aside), and false for every other non-empty href; an href of one
\* space yields true.
C3_DeadByHref ==
    (hpc = "returned" /\ element_info.href # None /\ element_info.href # <<>>) =>
        (hrefDead <=> ClaimedDead(element_info.href))
\* An inert link target as the specification defines it: javascript:void(0)
\* with one or two colons, a bare #, or white space only, compared without
\* case and without spaces.
InertTarget(h) ==
    \/ lower(replace_spaces(h)) \in {JsVoid, JsVoid2, Hash}
    \/ (h # <<>> /\ replace_spaces(h) = <<>>)

Observed == cpc = "returned" /\ cout.stage = "observed"

\* C4: whenever a classification reaches the observed state for a descriptor
\* whose link target is an inert marker, the result is dead_click, whatever
\* the URL, the title and the overlays are after the click.
C4_InertIsDead ==
    (Observed /\ InertTarget(cinfo.href)) => cout.result.click_status = "dead_click"

\* The status the priority order of C5 gives.
PriorityStatus(initial, current, modals) ==
    IF current.url # initial.url THEN "active_navigation"
    ELSE IF current.title # initial.title THEN "active_title_change"
    ELSE IF modals = "present" THEN "active_ui_change"
    ELSE "dead_click"

\* C5: for a descriptor with a non-inert link target that reaches the observed
\* state, the status is active_navigation if the URL changed, otherwise
\* active_title_change if the title changed, otherwise active_ui_change if an
\* overlay or expanded dropdown is found, otherwise dead_click.
C5_PriorityOrder ==
    (Observed /\ ~InertTarget(cinfo.href)) =>
        cout.result.click_status = PriorityStatus(csess, cenv.after, cenv.modals)

\* The click changed URL and title and opened an overlay at once, and the
\* first of the three decided.
C5_Witness ==
    /\ Observed /\ ~InertTarget(cinfo.href)
    /\ cenv.after.url # csess.url /\ cenv.after.title # csess.title
    /\ cenv.modals = "present"
    /\ cout.result.click_status = "active_navigation"
(***************************************************************************)
(* Claims about the concurrent run                                         *)
(***************************************************************************)
\* The fixed set of classifications of a ClickResult.
FixedStatuses ==
    {"active_navigation", "active_title_change", "active_ui_change", "dead_click",
     "not_clickable", "element_not_found", "click_intercepted", "stale_element",
     "timeout", "error"}

\* The run returned a TestRun (not the error record).
ReturnedRun == mpc = "returned" /\ "results" \in DOMAIN returned

\* The records of the aggregate whose descriptor is the one at position pos.
RecordsOf(results, pos) ==
    {k \in 1..Len(results) : results[k].element_info.pos = pos}

\* The positions (in the discovery list) of the elements of batch b.
BatchPositions(b) == {run_batches[b][j].pos : j \in 1..Len(run_batches[b])}

\* Batch b met a batch-level failure: its loop caught an exception of the
\* driver outside the classifier.
BatchFailed(b) ==
    \E j \in 1..Len(workers[b].batch_results) :
        workers[b].batch_results[j].click_status = "batch_error"

C7_ExactlyOnce ==
    /\ \A pos \in DOMAIN classified : classified[pos] <= 1
    /\ "results" \in DOMAIN test_results =>
          \A pos \in DOMAIN classified :
              Cardinality(RecordsOf(test_results.results, pos)) <= 1
    /\ (ReturnedRun /\ \A b \in DOMAIN workers : ~BatchFailed(b)) =>
          /\ Len(returned.results) = Len(clickable_elements)
          /\ \A pos \in 1..Len(clickable_elements) :
                /\ Cardinality(RecordsOf(returned.results, pos)) = 1
                /\ classified[pos] = 1

\* Two batches ran without a batch-level failure and the run returned.
C7_Witness ==
    /\ ReturnedRun
    /\ Len(run_batches) >= 2 /\ Len(clickable_elements) > Len(run_batches)
    /\ \A b \in DOMAIN workers : ~BatchFailed(b)
    /\ \E k \in 1..Len(returned.results) : returned.results[k].click_status = "error"

\* C8: each batch makes its driver calls on exactly one session of the pool,
\* no session serves two batches, so no two classifications executing at the
\* same time share a session, and no batch worker uses the lead session.
C8_SessionOwnership ==
    /\ \A b \in DOMAIN workers :
          /\ workers[b].driver \in 1..Len(driver_pool)
          /\ workers[b].driver # Lead
          /\ \A d \in DOMAIN touched : b \in touched[d] => d = workers[b].driver
    /\ \A b, c \in DOMAIN workers :
          b # c => workers[b].driver # workers[c].driver
    /\ touched[Lead] \subseteq {MainThread}
    /\ \A d \in DOMAIN touched : Cardinality(touched[d]) <= 1

\* Two classifications are executing at the same time, each on the session its
\* batch already used for the navigation check.
C8_Witness ==
    /\ Len(workers) >= 2
    /\ workers[1].pc = "test" /\ workers[2].pc = "test"
    /\ 1 \in touched[workers[1].driver] /\ 2 \in touched[workers[2].driver]

Fingerprint(info) ==
    md5(dedup_key(info.tag_name, info.text, info.href, info.class_names, info.id))

FingerprintsOf(list) == {Fingerprint(list[k]) : k \in 1..Len(list)}

\* C10: any two discovery passes over the unchanged page, two passes on the
\* same tester included, return lists of equal size and equal fingerprints,
\* and the fingerprint set that suppresses duplicates is empty at the start
\* of every pass.
C10_DiscoveryIdempotent ==
    /\ \A p \in 1..Len(passes) : passes[p].seen_before = {}
    /\ \A p, q \in 1..Len(passes) :
          /\ Len(passes[p].result) = Len(passes[q].result)
          /\ FingerprintsOf(passes[p].result) = FingerprintsOf(passes[q].result)
\* The non-carousel descriptors of a discovery result, as indices into it.
Regular(list) == {k \in 1..Len(list) : ~list[k].is_carousel_element}

\* The elements the three sweeps meet and admit, in the order they meet them:
\* the structural selectors in catalogue order, then the cursor-style sweep,
\* then the event-listener sweep.
EncounterOrder(d, main) ==
    LET all == find_elements(d, main, StructuralSelectors[1])
                 \o find_elements(d, main, StructuralSelectors[2])
                 \o KeepIn(AllNodes(d), {i \in 1..Len(d) : d[i].pointer})
                 \o KeepIn(AllNodes(d), {i \in 1..Len(d) : d[i].listener})
    IN KeepIn(all, {i \in 1..Len(d) : Admitted(d[i])})

\* The element met first, among those met, whose fingerprint fields are f.
FirstMet(d, main, f) ==
    LET order == EncounterOrder(d, main)
        hits == {j \in 1..Len(order) : Fingerprint(d[order[j]]) = f}
    IN order[CHOOSE j \in hits : \A i \in hits : j <= i]

\* C11: in the result of one discovery pass no two non-carousel descriptors
\* share a fingerprint; a descriptor that is kept is the one of the element
\* met first among the elements with its fingerprint fields, whichever sweep
\* met it; and a pass that starts with no fingerprint recorded keeps one
\* descriptor for every fingerprint the sweeps meet.
C11_OnePerFingerprint ==
    \A p \in 1..Len(passes) :
        LET list == passes[p].result
        IN /\ \A j, k \in Regular(list) :
                 Fingerprint(list[j]) = Fingerprint(list[k]) => j = k
           /\ \A k \in Regular(list) :
                 list[k].xpath = FirstMet(dom, main_content_area, Fingerprint(list[k]))
           /\ passes[p].seen_before = {} =>
                 {Fingerprint(list[k]) : k \in Regular(list)}
                    = {Fingerprint(dom[i]) : i \in {i \in 1..Len(dom) :
                          \E j \in 1..Len(EncounterOrder(dom, main_content_area)) :
                              EncounterOrder(dom, main_content_area)[j] = i}}

\* A pass over a page where two elements with the same fingerprint fields are
\* met by different sweeps, and one descriptor was kept for them.
C11_Witness ==
    /\ Len(passes) >= 1 /\ Len(dom) = 2
    /\ Fingerprint(dom[1]) = Fingerprint(dom[2])
    /\ Admitted(dom[1]) /\ Admitted(dom[2])
    /\ dom[1].pointer /\ ~dom[1].listener /\ dom[2].listener /\ ~dom[2].pointer
    /\ Cardinality(Regular(passes[1].result)) = 1
IsCarouselDescriptor(info) == info.is_carousel_element

\* The carousel-sourced descriptors of a discovery result, in order.
CarouselPart(list) == SelectSeq(list, IsCarouselDescriptor)

\* The elements the carousel path reaches: in a slide, within the scope of
\* the queries, matched by a selector of the slide catalogue, and enabled.
CarouselReached(d, main) ==
    {i \in 1..Len(d) :
        /\ d[i].slide /\ d[i].enabled /\ (main => d[i].in_main)
        /\ \E k \in 1..Len(SlideSelectors) : Matches(SlideSelectors[k], d[i])}

\* The elements the three sweeps meet and admit.
SweepMet(d, main) ==
    {EncounterOrder(d, main)[j] : j \in 1..Len(EncounterOrder(d, main))}

\* C12: carousel-sourced descriptors are not deduplicated against the others.
\* Every element the carousel path reaches has a carousel-sourced record in
\* every pass, whatever the fingerprint set holds; when a pass keeps a
\* non-carousel record with the same fields the result holds both; the
\* carousel records are the same in every pass; and the fingerprint set
\* after a pass holds only fingerprints of elements the sweeps admitted.
C12_CarouselNotDeduplicated ==
    /\ \A p \in 1..Len(passes) :
          LET list == passes[p].result
          IN /\ \A i \in CarouselReached(dom, main_content_area) :
                   \E k \in 1..Len(list) :
                       list[k].is_carousel_element /\ list[k].xpath = i
             /\ passes[p].seen_before = {} =>
                   \A i \in CarouselReached(dom, main_content_area) :
                       (\E m \in SweepMet(dom, main_content_area) :
                            Fingerprint(dom[m]) = Fingerprint(dom[i]))
                       => \E j, k \in 1..Len(list) :
                             /\ ~list[j].is_carousel_element
                             /\ list[k].is_carousel_element /\ list[k].xpath = i
                             /\ Fingerprint(list[j]) = Fingerprint(list[k])
    /\ \A p, q \in 1..Len(passes) :
          CarouselPart(passes[p].result) = CarouselPart(passes[q].result)
    /\ (Len(passes) >= 1 /\ passes[Len(passes)].tester = tester) =>
          seen_elements =
              passes[Len(passes)].seen_before
                \cup {Fingerprint(dom[m]) : m \in SweepMet(dom, main_content_area)}

\* A first pass returned a carousel-sourced and a non-carousel record with the
\* same fields, and a second pass on the same tester, its fingerprint set not
\* empty, returned the carousel-sourced record again.
C12_Witness ==
    /\ Len(passes) = 2 /\ passes[2].seen_before # {}
    /\ \E j, k \in 1..Len(passes[1].result) :
          /\ ~passes[1].result[j].is_carousel_element
          /\ passes[1].result[k].is_carousel_element
          /\ Fingerprint(passes[1].result[j]) = Fingerprint(passes[1].result[k])
    /\ CarouselPart(passes[2].result) # <<>>
(***************************************************************************)
(* Further claims about one classification                                 *)
(***************************************************************************)
\* The classifications that say the click went through and was observed.
ClickOutcomes ==
    {"active_navigation", "active_title_change", "active_ui_change", "dead_click"}

\* The driver answers of an element in a slide that is hidden when the page
\* is reloaded: a candidate with the descriptor's tag and text exists, it is
\* not displayed when located, the forcing script works, and nothing else
\* stands in the way of the click.
HiddenSlideAnswers ==
    /\ cinfo.is_carousel_element
    /\ cenv.present /\ ~cenv.displayed
    /\ cenv.raise = NoRaise /\ cenv.force = "ok" /\ cenv.enabled
    /\ (cenv.click = "ok" \/ cenv.js = "ok")

\* C13: the scheduler's classifier classifies a carousel-sourced descriptor
\* whose element sits in an initially hidden slide with a click outcome, not
\* element_not_found or not_clickable.
C13_HiddenSlideClassified ==
    (cpc = "returned" /\ cvariant = "concurrent" /\ HiddenSlideAnswers) =>
        cout.result.click_status \in ClickOutcomes
(***************************************************************************)
(* Further claims about the concurrent run                                 *)
(***************************************************************************)
\* The element was located, was clickable and was clicked, and its own click
\* caused no navigation, no title change and no overlay.
OwnClickDidNothing(e) ==
    /\ e.raise = NoRaise /\ e.present /\ e.enabled /\ e.click = "ok"
    /\ e.after = [url |-> TargetUrl, title |-> "T"]
    /\ e.modals = "absent"

\* C14: an element whose own click causes no navigation, no title change and
\* no overlay is classified dead_click, wherever it stands in its batch and
\* whatever the session classified before it.
C14_DeadWhereverInBatch ==
    \A b \in DOMAIN workers : \A j \in 1..Len(workers[b].batch_results) :
        LET rec == workers[b].batch_results[j]
        IN OwnClickDidNothing(answered[rec.element_info.pos]) =>
              rec.click_status = "dead_click"
\* C15: a descriptor with a non-inert link target whose click leaves URL and
\* title as they were and after which the overlay queries find a modal is
\* classified active_ui_change with new_elements_appeared true; and in every
\* ClickResult new_elements_appeared is true exactly when the classification
\* is active_ui_change.
C15_ModalIsUiChange ==
    /\ (Observed /\ ~InertTarget(cinfo.href) /\ cenv.after = csess
        /\ cenv.modals = "present") =>
          /\ cout.result.click_status = "active_ui_change"
          /\ cout.result.new_elements_appeared
    /\ cpc = "returned" =>
          (cout.result.new_elements_appeared
              <=> cout.result.click_status = "active_ui_change")

\* The click of a link to /about opened a modal and changed neither URL nor
\* title, and the result says active_ui_change.
C15_Witness ==
    /\ Observed /\ cinfo.href = AboutPath /\ cenv.after = csess
    /\ cenv.modals = "present"
    /\ cout.result.click_status = "active_ui_change"
    /\ cout.result.new_elements_appeared
\* Whether the lookup of the classifier that ran returned an element.
Found ==
    IF cvariant = "concurrent" THEN _find_element_by_info_with_driver(cinfo, cenv)
    ELSE IF cinfo.is_carousel_element
         THEN _find_and_prepare_carousel_element(cinfo, cenv)
         ELSE _find_element_by_info(cinfo, cenv)

Clickable == Found /\ DisplayedAtCheck(cinfo, cenv) /\ cenv.enabled

\* A driver call of the classifier's own try block raised during the call.
RaisedInBody ==
    \/ cenv.raise.at = "start"
    \/ cenv.raise.at \in {"scroll", "check"} /\ Found
    \/ cenv.raise.at = "click" /\ Clickable
    \/ cenv.raise.at = "observe" /\ Clickable
       /\ (cenv.click = "ok" \/ cenv.js = "ok")

\* The overlay queries were made and raised.
OverlayQueryRaised ==
    /\ Observed /\ ~is_dead_click_by_href(cinfo) /\ cenv.after = csess
    /\ cenv.modals = "raises"

\* The script forcing a carousel element visible was run and raised.
ForcingRaised ==
    /\ cenv.raise.at \notin {"start", "locate"} /\ Found
    /\ cinfo.is_carousel_element /\ cenv.force = "raises"

\* Some driver call made during the classification raised.
SomethingRaised ==
    RaisedInBody \/ cenv.raise.at = "locate" \/ OverlayQueryRaised \/ ForcingRaised

PoolSessions == {driver_pool[i] : i \in 1..Len(driver_pool)}

\* C17: when the concurrent run has returned, normally or with an error,
\* quit() was called on every session acquired for the pool; and no batch is
\* still at work on a session after it was released.
C17_PoolReleased ==
    /\ mpc = "returned" => \A d \in PoolSessions : sessions[d].quit
    /\ \A b \in DOMAIN workers :
          sessions[workers[b].driver].quit => workers[b].pc = "done"

\* A run aborted with an error after the pool was set up and a batch had used
\* its session, and the pool was released.
C17_Witness ==
    /\ mpc = "returned" /\ "error" \in DOMAIN returned
    /\ Len(driver_pool) = 2 /\ Len(workers) = 1
    /\ Len(workers[1].batch_results) >= 1
    /\ \A d \in PoolSessions : sessions[d].quit
\* Discovery returned and the pool setup acquired no session.
NoneAcquired ==
    /\ mpc \notin {"idle", "start", "setup"}
    /\ sessions[Lead].alive /\ DOMAIN sessions = {Lead}

\* C18: if no session can be acquired for the pool, the concurrent run returns
\* an error outcome at once: no batch is made or started and no element is
\* classified.
C18_FailFast ==
    NoneAcquired =>
        /\ mpc = "returned" /\ "error" \in DOMAIN returned
        /\ run_batches = <<>> /\ workers = <<>>
        /\ \A pos \in DOMAIN classified : classified[pos] = 0
        /\ \A d \in DOMAIN touched : touched[d] \subseteq {MainThread}

\* Elements were discovered, two sessions were asked for, none was acquired,
\* and the run returned the error.
C18_Witness ==
    /\ NoneAcquired /\ max_workers = 2 /\ Len(clickable_elements) >= 2
    /\ mpc = "returned" /\ "error" \in DOMAIN returned
\* The records the batches of the run have produced so far, by batch.
GatheredSoFar(b) == workers[b].batch_results

\* C19: a run that fails returns a record of the TestRun shape (target URL,
\* counts, result list) with an error field added, and the results gathered
\* before the failure are in it.
C19_FailedRunShape ==
    (mpc = "returned" /\ "error" \in DOMAIN returned) =>
        /\ {"url", "total_elements_found", "elements_tested", "active_clicks",
            "dead_clicks", "errors", "results"} \subseteq DOMAIN returned
        /\ \A b \in DOMAIN workers : \A j \in 1..Len(GatheredSoFar(b)) :
              \E k \in 1..Len(returned.results) :
                  returned.results[k] = GatheredSoFar(b)[j]
(***************************************************************************)
(* Further claims about the partition                                      *)
(***************************************************************************)
RECURSIVE Concat(_)
Concat(bs) == IF bs = <<>> THEN <<>> ELSE Head(bs) \o Concat(Tail(bs))

\* C20: the batches are contiguous slices of the list in order: concatenated
\* by batch index they give the list back, and the batches holding one
\* element more than floor(N/K) are the first N mod K.
C20_ContiguousSlices ==
    bpc = "returned" =>
        /\ Concat(batches) = elements
        /\ \A b \in 1..Len(batches) :
              Len(batches[b]) =
                  Floor(Len(elements), num_batches)
                    + (IF b <= Len(elements) % num_batches THEN 1 ELSE 0)

\* Ten elements in four batches: two of three elements, then two of two.
C20_Witness ==
    /\ bpc = "returned"
    /\ Len(elements) = 10 /\ num_batches = 4
    /\ batches = <<<<1, 2, 3>>, <<4, 5, 6>>, <<7, 8>>, <<9, 10>>>>

\* C21: in the classifier used by the scheduler, a timeout raised by a driver
\* call of the classification ends it with status timeout, and a staleness
\* error of the located handle ends it with status stale_element.
C21_TimeoutAndStale ==
    (cpc = "returned" /\ cvariant = "concurrent" /\ RaisedInBody) =>
        /\ (cenv.raise.kind = "timeout" =>
               cout.result.click_status = "timeout")
        /\ (cenv.raise.kind = "stale" /\ cenv.raise.at # "start" =>
               cout.result.click_status = "stale_element")

\* The session of batch b died during the element at position sessions[d].fatal.
SessionDied(b) == sessions[workers[b].driver].fatal # 0

\* The elements of batch b that come after the one during which its session
\* died.
Remaining(b) ==
    {j \in 1..Len(run_batches[b]) :
        run_batches[b][j].pos > sessions[workers[b].driver].fatal}

C23_NavigateWhenOff ==
    \A b \in DOMAIN workers :
        LET w == workers[b]
            d == w.driver
        IN /\ w.seen # NotSeen => (w.got <=> w.seen.url # TargetUrl)
           /\ w.pc = "test" =>
                 /\ w.seen # NotSeen
                 /\ sessions[d].url = TargetUrl
                 /\ ~w.got => PageOf(sessions[d]) = w.seen
                 /\ w.got => PageOf(sessions[d])
                                = [url |-> TargetUrl, title |-> "T", overlay |-> FALSE]

\* A batch of three: the first element opened an overlay, the second was
\* classified on the target and its click navigated away, and the third is
\* about to be classified after the loop brought the session back.
C23_Witness ==
    \E b \in DOMAIN workers :
        /\ workers[b].pc = "test" /\ workers[b].i = 3
        /\ workers[b].got /\ workers[b].seen.url = OtherUrl
        /\ workers[b].batch_results[1].click_status = "active_ui_change"
        /\ workers[b].batch_results[2].url_before = TargetUrl
        /\ workers[b].batch_results[2].url_after = OtherUrl

(***************************************************************************)
(* Claims about the locator                                                *)
(***************************************************************************)
\* The lookup that ran asks is_displayed() of its candidates.
DisplayedRequired == lvariant \in {"with_driver", "lead"}

\* The descriptor has a value for strategy s: 1 id, 2 structural path,
\* 3 class-derived selector.
Usable(s) ==
    CASE s = 1 -> linfo.id # <<>>
      [] s = 2 -> linfo.xpath # "xpath_unavailable"
      [] s = 3 -> linfo.class_names # <<>>

\* Candidate c has the descriptor's tag name and truncated text, and is
\* displayed where that is asked for.
Acceptable(c, displayed_asked) ==
    /\ c.tag_name = linfo.tag_name
    /\ truncated_text(c.text) = linfo.text
    /\ displayed_asked => c.displayed

\* Strategy s was tried, did not throw up to its candidate k, and k is its
\* first acceptable candidate.
Yields(s, k, displayed_asked) ==
    /\ Usable(s) /\ ~lanswers[s].raises
    /\ k \in 1..Len(lanswers[s].elements)
    /\ \A j \in 1..k : ~lanswers[s].elements[j].stale
    /\ Acceptable(lanswers[s].elements[k], displayed_asked)
    /\ \A j \in 1..(k - 1) : ~Acceptable(lanswers[s].elements[j], displayed_asked)

\* What the claim says the lookup returns, acceptance asking for a displayed
\* candidate or not.
Located(displayed_asked) ==
    /\ lout.found <=>
          \E s \in 1..3 : \E k \in DOMAIN lanswers[s].elements :
              Yields(s, k, displayed_asked)
    /\ lout.found =>
          /\ Yields(lout.strategy, lout.index, displayed_asked)
          /\ \A s \in 1..(lout.strategy - 1) :
                \A k \in DOMAIN lanswers[s].elements :
                    ~Yields(s, k, displayed_asked)

\* C24 as claimed: locate tries identifier, structural path and class-derived
\* selector in this order and returns the first candidate of the first
\* strategy that has one whose tag name and truncated text equal the
\* descriptor's, whether it is displayed or not; a strategy that throws is
\* abandoned for the next.
C24_Original == lpc = "returned" => Located(FALSE)

\* C24 as amended: the same order and the same abandoning of a strategy that
\* throws, but the two document-wide lookups accept a candidate only if it is
\* also displayed; the lookup inside a carousel container does not ask.
C24_Locate == lpc = "returned" => Located(DisplayedRequired)

\* The identifier query threw, the structural path gave a hidden candidate
\* followed by a displayed one, both with the descriptor's tag and text, and
\* the scheduler's lookup returned the second.
C24_Witness ==
    /\ lpc = "returned" /\ lvariant = "with_driver"
    /\ Usable(1) /\ lanswers[1].raises
    /\ Usable(2) /\ lanswers[2] = Elements(<<Hidden, Shown>>)
    /\ linfo.text = Go
    /\ lout = [found |-> TRUE, strategy |-> 2, index |-> 2]

(***************************************************************************)
(* Claims about the steps of a classification and the order of discovery   *)
(***************************************************************************)
\* The lookup of the classifier that ran exhausted its strategies: none gave
\* a candidate it accepts.
NothingLocated ==
    \/ cenv.raise.at = "locate"
    \/ ~cenv.present
    \/ (cvariant = "concurrent" \/ ~cinfo.is_carousel_element) /\ ~cenv.displayed

\* The driver operations the classifier performed on or after the element.
ElementOps == {"force_visible", "scroll", "is_displayed", "click", "js_click",
               "find_overlays"}

\* C25: when every locator strategy is exhausted without a match, the
\* classification ends with element_not_found: the lookup does not raise, and
\* no scroll, no click and no observation is performed for the element.
C25_NotFound ==
    (cpc = "returned" /\ cenv.raise.at # "start" /\ NothingLocated) =>
        /\ cout.result.click_status = "element_not_found"
        /\ cout.result.element_info = cinfo
        /\ cout.stage = "start"
        /\ cout.ops = <<"current_url", "title", "find">>
        /\ \A k \in 1..Len(cout.ops) : cout.ops[k] \notin ElementOps
        /\ cout.result.url_after = "" /\ ~cout.result.page_changed
        /\ ~cout.result.new_elements_appeared
        /\ cout.sess = csess

\* The scheduler's classifier looked up an element no strategy has a
\* candidate for and returned element_not_found.
C25_Witness ==
    /\ cpc = "returned" /\ cvariant = "concurrent"
    /\ cenv.raise.at = "none" /\ ~cenv.present
    /\ cout.result.click_status = "element_not_found"
    /\ Len(cout.ops) = 3

\* The classification reached the re-check of line 177 (1187) and the element
\* answered not displayed, or not enabled.  A carousel element the forcing
\* script ran on is displayed.
FailedRecheck ==
    /\ ~NothingLocated
    /\ cenv.raise.at \notin {"start", "scroll", "check"}
    /\ \/ ~cenv.enabled
       \/ ~cenv.shown /\ ~(cinfo.is_carousel_element /\ cenv.force = "ok")

\* Operation op is among the driver operations the classifier performed.
Performed(op) == \E k \in 1..Len(cout.ops) : cout.ops[k] = op

PositionsOf(op) == {k \in 1..Len(cout.ops) : cout.ops[k] = op}

\* The classification reached the click: the element was located, prepared
\* and passed the re-check, and element.click() raised nothing but, possibly,
\* the interception.
ReachedClick ==
    /\ ~NothingLocated /\ ~FailedRecheck
    /\ cenv.raise.at \notin {"start", "scroll", "check", "click"}

\* C27: the script-level click is attempted only after the direct click was
\* intercepted, right after it and at most once in a classification; if it
\* succeeds the classification goes on to observation, if it fails the
\* classification ends with click_intercepted.
C27_ForcedClick ==
    cpc = "returned" =>
        /\ Cardinality(PositionsOf("js_click")) <= 1
        /\ Cardinality(PositionsOf("click")) <= 1
        /\ \A k \in PositionsOf("js_click") :
              /\ k > 1 /\ cout.ops[k - 1] = "click"
              /\ ReachedClick /\ cenv.click = "intercepted"
        /\ (ReachedClick /\ cenv.click = "ok") => PositionsOf("js_click") = {}
        /\ (ReachedClick /\ cenv.click = "intercepted") =>
              /\ Cardinality(PositionsOf("js_click")) = 1
              /\ cenv.js = "ok" =>
                    /\ cout.stage \in {"clicked", "observed"}
                    /\ cout.result.click_status # "click_intercepted"
                    /\ cout.ops[Len(cout.ops)] # "js_click"
              /\ cenv.js = "raises" =>
                    /\ cout.result.click_status = "click_intercepted"
                    /\ cout.stage = "prepared"
                    /\ cout.ops[Len(cout.ops)] = "js_click"
                    /\ cout.sess = csess

\* The direct click was intercepted, the script-level click went through and
\* the classification observed a navigation.
C27_Witness ==
    /\ cpc = "returned" /\ cvariant = "concurrent"
    /\ cenv.raise.at = "none" /\ ReachedClick
    /\ cenv.click = "intercepted" /\ cenv.js = "ok"
    /\ PositionsOf("js_click") # {}
    /\ cout.result.click_status = "active_navigation"

\* The place of a descriptor's source in the order claimed: structural
\* sweep, cursor-style sweep, event-listener sweep, carousel path.
Rank(info) ==
    IF info.is_carousel_element THEN 4
    ELSE IF info.detection_method = "pointer_cursor" THEN 2
    ELSE IF info.detection_method = "event_listener" THEN 3
    ELSE 1

\* The descriptor is for an element its source reaches.
FromItsSource(info) ==
    LET el == dom[info.xpath]
    IN CASE Rank(info) = 1 ->
              \E k \in 1..Len(StructuralSelectors) : Matches(StructuralSelectors[k], el)
         [] Rank(info) = 2 -> el.pointer
         [] Rank(info) = 3 -> el.listener
         [] Rank(info) = 4 -> el.slide

\* C28: the list a discovery pass returns holds the structural-sweep
\* descriptors, then the cursor-style ones, then the event-listener ones, and
\* every carousel-sourced descriptor comes after every other descriptor.
C28_ResultOrder ==
    \A p \in 1..Len(passes) :
        LET list == passes[p].result
        IN /\ \A i, j \in 1..Len(list) : i < j => Rank(list[i]) <= Rank(list[j])
           /\ \A i \in 1..Len(list) : FromItsSource(list[i])

\* A page whose first element has the pointer cursor and whose second is a
\* link in a carousel slide: the list is the link by the structural sweep,
\* the first element by the cursor-style sweep, the link by the carousel path.
C28_Witness ==
    \E p \in 1..Len(passes) :
        LET list == passes[p].result
        IN /\ Len(list) = 3
           /\ Rank(list[1]) = 1 /\ list[1].xpath = 2
           /\ Rank(list[2]) = 2 /\ list[2].xpath = 1
           /\ Rank(list[3]) = 4 /\ list[3].xpath = 2

\* C29: when a main-content region is found, every query of the pass is
\* scoped to it: no descriptor of the structural, cursor-style or
\* event-listener sweep is for an element outside the region.
C29_ScopedToMain ==
    main_content_area =>
        \A p \in 1..Len(passes) :
            \A i \in 1..Len(passes[p].result) :
                LET info == passes[p].result[i]
                IN Rank(info) \in {1, 2, 3} => dom[info.xpath].in_main

\* C30: no descriptor of the structural, cursor-style or event-listener sweep
\* is for an element inside a carousel container: such an element is in the
\* result only as a carousel-sourced descriptor, and every element the sweeps
\* admit is displayed, enabled and not header/footer-excluded.
C30_NoRegularInsideCarousel ==
    \A p \in 1..Len(passes) :
        \A i \in 1..Len(passes[p].result) :
            LET info == passes[p].result[i]
                el == dom[info.xpath]
            IN Rank(info) \in {1, 2, 3} =>
                  /\ el.displayed /\ el.enabled /\ ~el.excluded
                  /\ ~el.slide

(***************************************************************************)
(* Claims about failures during discovery, the aggregate and termination   *)
(***************************************************************************)
\* The query of source for selector did not throw.
Works(source, selector) == Fault(source, selector) \notin faults

\* The elements met and admitted by the structural selectors and the sweeps
\* that did not throw.
MetDespiteFaults ==
    {i \in 1..Len(dom) :
        /\ dom[i].displayed /\ dom[i].enabled /\ ~dom[i].excluded
        /\ \/ \E k \in 1..Len(StructuralSelectors) :
                 /\ Works("structural", StructuralSelectors[k])
                 /\ Matches(StructuralSelectors[k], dom[i])
                 /\ (main_content_area => dom[i].in_main)
           \/ Works("pointer", "*") /\ dom[i].pointer
           \/ Works("listener", "*") /\ dom[i].listener}

\* The elements reached by the carousel path through queries that did not
\* throw.
ReachedDespiteFaults ==
    {i \in 1..Len(dom) :
        /\ Works("carousel", "*")
        /\ dom[i].slide /\ dom[i].enabled
        /\ (main_content_area => dom[i].in_main)
        /\ \E k \in 1..Len(SlideSelectors) :
              /\ Works("slide", SlideSelectors[k])
              /\ Matches(SlideSelectors[k], dom[i])}

\* C31: a selector or a whole sweep that throws during discovery is skipped
\* and discovery goes on: the pass returns a list that holds a descriptor for
\* every fingerprint met by a selector or sweep that did not throw, before or
\* after the one that did, the carousel descriptors of every element reached
\* by queries that did not throw, and nothing from a sweep that threw.
C31_FailuresSkipped ==
    \A p \in 1..Len(passes) :
        LET list == passes[p].result
        IN /\ \A i \in MetDespiteFaults :
                 Fingerprint(dom[i]) \notin passes[p].seen_before =>
                    \E k \in Regular(list) : Fingerprint(list[k]) = Fingerprint(dom[i])
           /\ \A k \in Regular(list) : list[k].xpath \in MetDespiteFaults
           /\ {list[k].xpath : k \in 1..Len(list) \ Regular(list)}
                 = ReachedDespiteFaults
           /\ \A k \in 1..Len(list) :
                 /\ Rank(list[k]) = 2 => Works("pointer", "*")
                 /\ Rank(list[k]) = 3 => Works("listener", "*")

\* The query for 'a' threw; the link was still found by the later selector
\* '.btn' and the cursor-style sweep still ran and found the second element.
C31_Witness ==
    /\ faults = {Fault("structural", "a")}
    /\ Len(passes) >= 1 /\ Len(dom) = 2
    /\ dom[1].tag_name = <<"a">> /\ dom[1].class_names = BtnClass
    /\ Len(passes[1].result) = 2
    /\ Rank(passes[1].result[1]) = 1 /\ passes[1].result[1].xpath = 1
    /\ Rank(passes[1].result[2]) = 2 /\ passes[1].result[2].xpath = 2

\* The places of the aggregate held by records of batch b's elements.
PlacesOf(b) ==
    {k \in 1..Len(test_results.results) :
        test_results.results[k].element_info.pos \in BatchPositions(b)}

\* Batch b's records are in the aggregate as one block, in the batch's order.
OneBlock(b) ==
    \E start \in 0..Len(test_results.results) :
        /\ PlacesOf(b) = (start + 1)..(start + Len(workers[b].batch_results))
        /\ \A j \in 1..Len(workers[b].batch_results) :
              test_results.results[start + j] = workers[b].batch_results[j]

\* The aggregate: nothing of a batch before it is collected, one block after.
BlockwiseAggregate ==
    "results" \in DOMAIN test_results =>
        \A b \in DOMAIN workers :
            IF b \in collected THEN OneBlock(b) ELSE PlacesOf(b) = {}

\* A step in which a worker moved: it moved alone, it left the aggregate and
\* the set of collected batches as they were, and it touched no session but
\* its own.
WorkersWriteLocally ==
    (workers # <<>> /\ workers' # workers) =>
        /\ test_results' = test_results /\ collected' = collected
        /\ DOMAIN workers' = DOMAIN workers
        /\ \A b, c \in DOMAIN workers :
              (workers'[b] # workers[b] /\ workers'[c] # workers[c]) => b = c
        /\ \A b \in DOMAIN workers : \A d \in DOMAIN sessions :
              (workers'[b] # workers[b] /\ sessions'[d] # sessions[d]) =>
                  d = workers[b].driver

\* C32: the aggregate result list is written only by the coordinating
\* thread, which appends each completed batch's records as one block: the
\* records of two batches are never interleaved and stay in their batch's
\* order; a worker writes only its own result list.
C32_BlockwiseMerge == []BlockwiseAggregate /\ [][WorkersWriteLocally]_vars

\* Two batches, the first of two elements; the second was collected first
\* and the first after it.
C32_Witness ==
    /\ ReturnedRun /\ Len(run_batches) = 2 /\ collected = {1, 2}
    /\ Len(workers[1].batch_results) = 2
    /\ PlacesOf(2) = {1} /\ PlacesOf(1) = {2, 3}

\* The place in the discovery list of the j-th element of batch b.
PlaceInList(b, j) ==
    LET before == [c \in 1..(b - 1) |-> run_batches[c]]
    IN Len(Concat(before)) + j

\* The descriptor stored in record rec is the one discovery produced.
AsDiscovered(rec) ==
    /\ rec.element_info.pos \in 1..Len(page)
    /\ rec.element_info = page[rec.element_info.pos]

\* C33: classification and scheduling never modify a descriptor: the list of
\* the run and its batches hold the descriptors as discovery produced them,
\* and the descriptor stored in every ClickResult, of a batch, of the
\* aggregate and of the returned run, equals the discovered one field for
\* field, whatever the outcome.
C33_DescriptorImmutable ==
    /\ clickable_elements \in {<<>>, page}
    /\ \A b \in DOMAIN workers :
          /\ \A j \in 1..Len(run_batches[b]) :
                run_batches[b][j] = page[PlaceInList(b, j)]
          /\ \A j \in 1..Len(workers[b].batch_results) :
                workers[b].batch_results[j].element_info = page[PlaceInList(b, j)]
    /\ "results" \in DOMAIN test_results =>
          \A k \in 1..Len(test_results.results) : AsDiscovered(test_results.results[k])
    /\ ReturnedRun =>
          \A k \in 1..Len(returned.results) : AsDiscovered(returned.results[k])

\* A returned run of three records: an element that navigated, one whose
\* classification raised and one the batch loop gave up on.
C33_Witness ==
    /\ ReturnedRun /\ Len(returned.results) = 3
    /\ \E k \in 1..3 : returned.results[k].click_status = "active_navigation"
    /\ \E k \in 1..3 : returned.results[k].click_status = "error"
    /\ \E k \in 1..3 : returned.results[k].click_status = "batch_error"
    /\ \A k \in 1..3 : returned.results[k].element_info.href # <<>>

\* The tasks were submitted.
Started == mpc \in {"collect", "aborting"}

\* The run returned, and every batch submitted ran to the end of its loop.
Finished ==
    /\ mpc = "returned"
    /\ \A b \in DOMAIN workers : workers[b].pc = "done"
    /\ ReturnedRun =>
          /\ collected = DOMAIN workers
          /\ returned.elements_tested = Len(returned.results)

\* A batch that has not finished can take its next step whatever the other
\* batches and the coordinating thread are doing.
NeverWaiting ==
    \A b \in DOMAIN workers :
        (Started /\ workers[b].pc # "done") =>
            /\ workers[b].pc \in {"nav", "test"}
            /\ ENABLED (WNav(b) \/ WTest(b))

\* C34: once the batches are started, every batch runs to its end and the
\* run then returns: under fair scheduling, with driver calls that return or
\* raise, all batches eventually finish, the results are aggregated and the
\* run terminates; no batch is cancelled or waits for another.
C34_RunTerminates == []NeverWaiting /\ (Started ~> Finished)

\* A run returned after its second batch lost its session and its first
\* batch was classified throughout.
C34_Witness ==
    /\ ReturnedRun /\ Len(run_batches) = 2 /\ collected = {1, 2}
    /\ ~sessions[workers[2].driver].alive /\ BatchFailed(2)
    /\ sessions[workers[1].driver].alive /\ ~BatchFailed(1)
    /\ \A b \in DOMAIN workers : workers[b].pc = "done"

\* The run was the sequential one.
Sequential == workers = <<>> /\ driver_pool = <<>> /\ max_workers = 1 /\ run_batches = <<>>
                 /\ DOMAIN sessions = {Lead} /\ MainThread \in touched[Lead]
                 /\ collected = {}

\* C35: in every TestRun returned, by the concurrent run or by the
\* sequential one, the tested count is the length of the result list, the
\* active, dead and error counts add up to the tested count, and the tested
\* count is at most the number of descriptors discovered.
C35_CountsAgree ==
    ReturnedRun =>
        /\ returned.elements_tested = Len(returned.results)
        /\ returned.active_clicks + returned.dead_clicks + returned.errors
              = returned.elements_tested
        /\ returned.elements_tested <= returned.total_elements_found
        /\ returned.active_clicks = ActiveCount(returned.results)
        /\ returned.dead_clicks = DeadCount(returned.results)
        /\ returned.errors = OtherCount(returned.results)

\* A sequential run returned three records: one active, one dead and one
\* that is neither.
C35_Witness ==
    /\ Sequential /\ ReturnedRun /\ Len(returned.results) = 3
    /\ classified = <<1, 1, 1>>
    /\ returned.active_clicks = 1 /\ returned.dead_clicks = 1 /\ returned.errors = 1
    /\ returned.summary.total_tested = 3

\* The statuses of a classification that ended before observation.
EarlyStatuses == {"element_not_found", "not_clickable", "click_intercepted", "error"}

\* The classification of descriptor info, as called, went as the inert-link
\* rule says: located, prepared and clicked before the link target decides,
\* and ended with an early status when it did not get that far.
ClickedBeforeInertCheck ==
    /\ (cout.result.click_status = "dead_click") = (cout.stage = "observed")
    /\ cout.stage = "observed" =>
          /\ Found /\ Clickable /\ ~RaisedInBody
          /\ Performed("find") /\ Performed("scroll") /\ Performed("is_displayed")
          /\ Performed("click")
          /\ cenv.click = "ok" \/ cenv.js = "ok"
          /\ ~Performed("find_overlays")
    /\ (Clickable /\ ~RaisedInBody /\ (cenv.click = "ok" \/ cenv.js = "ok")) =>
          cout.stage = "observed"
    /\ cout.stage # "observed" => cout.result.click_status \in EarlyStatuses

\* C36: the inert-link check does not cut the classification short: a
\* descriptor with an inert link target is still located, prepared and
\* clicked, and it is dead_click by its link target only after the click; when
\* it cannot be located, is not clickable or its click fails, it ends with
\* element_not_found, not_clickable, click_intercepted or error.
C36_NoShortCircuit ==
    (cpc = "returned" /\ InertTarget(cinfo.href)) => ClickedBeforeInertCheck

\* Some sessions of the pool, but fewer than asked for, were acquired.
ShortPool ==
    /\ mpc \notin {"idle", "start", "setup"}
    /\ 1 <= Len(driver_pool) /\ Len(driver_pool) < max_workers

\* C37: when only m sessions are acquired, 1 <= m < max_workers, the run goes
\* on with them: there are at most m batches, batch i works on session i of
\* the pool and never on an index beyond it, and every descriptor discovered
\* is in exactly one batch.
C37_ShortPoolProceeds ==
    ShortPool =>
        /\ test_results # <<>> \/ mpc = "submit"
        /\ mpc # "submit" =>
              /\ Len(run_batches) <= Len(driver_pool)
              /\ DOMAIN workers \subseteq DOMAIN driver_pool
              /\ \A b \in DOMAIN workers : workers[b].driver = driver_pool[b]
              /\ \A d \in DOMAIN touched :
                    touched[d] \ {MainThread} # {} => d \in PoolSessions
              /\ \A p \in 1..Len(clickable_elements) :
                    Cardinality({b \in 1..Len(run_batches) : p \in BatchPositions(b)}) = 1
              /\ SumLen(run_batches) = Len(clickable_elements)

\* A run asked for two sessions, acquired one, and returned the three
\* elements of the page classified by one batch on that session.
C37_Witness ==
    /\ ShortPool /\ ReturnedRun /\ Len(driver_pool) = 1 /\ max_workers = 2
    /\ Len(run_batches) = 1 /\ Len(returned.results) = 3
    /\ touched[driver_pool[1]] = {1}

\* The concurrent run found nothing to test.
EmptyDiscovery ==
    /\ mpc \in {"collect", "aborting", "returned"}
    /\ sessions[Lead].alive /\ clickable_elements = <<>> /\ driver_pool # <<>>

\* C38: a concurrent run whose discovery is empty starts no batch and
\* classifies nothing, and what it returns is a TestRun with tested count 0,
\* every outcome count 0 and every percentage 0, after quit() was called on
\* every session of the pool.
C38_EmptyDiscovery ==
    EmptyDiscovery =>
        /\ run_batches = <<>> /\ workers = <<>>
        /\ \A p \in DOMAIN classified : classified[p] = 0
        /\ \A d \in PoolSessions : touched[d] = {}
        /\ mpc = "returned" =>
              /\ ReturnedRun
              /\ returned.total_elements_found = 0 /\ returned.elements_tested = 0
              /\ returned.results = <<>>
              /\ returned.active_clicks = 0 /\ returned.dead_clicks = 0
              /\ returned.errors = 0
              /\ returned.summary.total_tested = 0
              /\ returned.summary.active_percentage = 0
              /\ returned.summary.dead_percentage = 0
              /\ returned.summary.error_percentage = 0
              /\ DOMAIN returned.summary.click_status_breakdown = {}
              /\ \A d \in PoolSessions : sessions[d].quit

\* A run on a page without clickable elements acquired two sessions and
\* returned its TestRun.
C38_Witness ==
    /\ EmptyDiscovery /\ ReturnedRun /\ page = <<>>
    /\ Len(driver_pool) = 2 /\ returned.summary.total_tested = 0
    /\ \A d \in PoolSessions : sessions[d].quit
====
